---- MODULE Spec2Model ----
(***************************************************************************)
(* Model of the MARCO navigation code.                                     *)
(*                                                                         *)
(*   Part 1  src/poc/poc_example.py : Navigator.follow_line and            *)
(*           Navigator.attempt_reacquire (PID line following with gap      *)
(*           recovery), one action per hardware call of the loop.          *)
(*   Part 2  src/systems/navigation_system.py : Transformation3D, the      *)
(*           rotation matrices on angles that are multiples of 90 degrees. *)
(*   Part 3  src/systems/navigation_system.py : Location3D.calibrate,      *)
(*           update_position and Navigation3D.run_continuous_update.       *)
(*   Part 4  src/tests/navigation_display_test.py : the safety ring, the   *)
(*           integrator and the display as tasks of one event loop;        *)
(*           src/systems/mobility_system.py : MotionController on its own. *)
(*   Part 5  src/poc/poc_example.py : single methods of Navigator called   *)
(*           on their own, and two follow_line calls compared.             *)
(*                                                                         *)
(* Fixed-point units (the source computes in floats):                      *)
(*   time            milliseconds                                          *)
(*   speed           milli-cm/s        (25.0 cm/s = 25000)                 *)
(*   distance        milli-cm          (40.0 cm   = 40000)                 *)
(*   sensor value    hundredths        (0.5       = 50)                    *)
(*   lateral error   thousandths of a sensor position                      *)
(*   angular rate    milli-rad/s                                           *)
(*   integral        thousandths x ms  (= 1e-6 position-seconds)           *)
(* Divisions truncate toward zero.                                         *)
(*                                                                         *)
(* The clock advances only in time.sleep, by exactly the requested time:   *)
(* computation takes no time.  This is the most favourable case for every  *)
(* time budget of the code.                                                *)
(***************************************************************************)
EXTENDS Integers, Sequences, FiniteSets, TLC

\* ------------------------------------------------------------------------
\* Bounds of the model
\* ------------------------------------------------------------------------

\* follow_line is observed for at most MaxTicks iterations of its loop.
MaxTicks == 3

\* The track shows at most MaxGaps gaps (ticks without line) to follow_line.
MaxGaps == 1

\* run_continuous_update is observed for at most MaxNavTicks iterations.
MaxNavTicks == 3

\* kwarg calibration_samples of run_continuous_update (default 50).
CalSamples == 2

\* ------------------------------------------------------------------------
\* Constants of src/poc/poc_example.py
\* ------------------------------------------------------------------------

MIN_RADIUS_CM == 5080
WHEEL_BASE_CM == 12
MAX_LINEAR_SPEED == 25000
OMEGA_MAX == (MAX_LINEAR_SPEED * 1000) \div MIN_RADIUS_CM

KP == 900
KI == 2
KD == 20

NUM_SENSORS == 5
SENSOR_THRESHOLD == 50
SENSOR_POSITIONS == <<-2, -1, 0, 1, 2>>

GAP_MAX_REACQUIRE_TIME == 1200
GAP_SWEEP_ANGLE_DEG == 20
GAP_SWEEP_STEP == 5
REACQUIRE_MAX_DISTANCE_CM == 40000

LINE_WINDOW_SAMPLES == 25
LOOP_DT == 40

\* Literal sleeps of attempt_reacquire.
DEAD_RECKON_STEP_S == 50
SWEEP_PULSE_S == 120
SWEEP_SETTLE_S == 30
WIGGLE_PULSE_S == 80
WIGGLE_SETTLE_S == 30
WIGGLE_TRIES == 3

\* math.radians(GAP_SWEEP_STEP) in micro-radians, and the 0.2 s the sweep
\* aims to turn one step in.
STEP_RAD == 87266
SWEEP_AIM_S == 200

\* ------------------------------------------------------------------------
\* Helper arithmetic
\* ------------------------------------------------------------------------

Min(a, b) == IF a <= b THEN a ELSE b
Max(a, b) == IF a >= b THEN a ELSE b

\* Float division, truncated toward zero at the fixed-point scale.
TruncDiv(a, b) ==
    IF b = 0 THEN 0
    ELSE IF (a >= 0) = (b > 0)
         THEN (IF a >= 0 THEN a ELSE -a) \div (IF b > 0 THEN b ELSE -b)
         ELSE -((IF a >= 0 THEN a ELSE -a) \div (IF b > 0 THEN b ELSE -b))

clamp(x, lo, hi) == Max(lo, Min(hi, x))

Abs1(x) == IF x >= 0 THEN x ELSE -x
Abs3(v) == Abs1(v[1]) + Abs1(v[2]) + Abs1(v[3])

\* time.sleep(d) on a clock reading t.
Sleep(t, d) == t + d

stop_motors == <<0, 0>>

\* ------------------------------------------------------------------------
\* Inputs
\* ------------------------------------------------------------------------

\* desired_speed_cm_s: the default 15.0, and a caller that asks for more than
\* the motors allow.
Speeds == {15000, 100000}

\* run_time_s: a short run and the default 9999 s.
RunTimes == {100, 9999000}

\* Sensor frames (left to right).
Blank        == <<0, 0, 0, 0, 0>>
Dim          == <<40, 49, 40, 0, 0>>
Centered     == <<0, 0, 90, 0, 0>>
RightPair    == <<0, 0, 0, 50, 100>>
Frames == {Blank, Dim, Centered, RightPair}

\* The encoder hardware of a run: "unsupported" (read_encoders raises),
\* "cm" (distance in cm) or "ticks" (raw counts, far larger numbers).
EncoderKinds == {"unsupported", "cm", "ticks"}

\* What one read_encoders call adds to the previous reading (left, right),
\* or <<>> when the call raises: a gentle turn while tracking, wheels that
\* do not move while searching.
EncoderReads(kind, searching) ==
    CASE kind = "unsupported" -> {<<>>}
      [] kind = "cm" -> IF searching THEN {<<0, 0>>} ELSE {<<500, 700>>}
      [] OTHER -> {<<40000, 40000>>}
Raises(e) == Len(e) = 0

\* ------------------------------------------------------------------------
\* Pure functions of Navigator
\* ------------------------------------------------------------------------

\* The total with ">" in place of the ">=" of line 142.
RECURSIVE SumTotal_Strict(_, _)
SumTotal_Strict(vals, i) ==
    IF i > Len(vals) \/ i > Len(SENSOR_POSITIONS) THEN 0
    ELSE (IF vals[i] > SENSOR_THRESHOLD THEN vals[i] ELSE 0)
         + SumTotal_Strict(vals, i + 1)

\* The weighted sum without the intensity weight of line 146.
RECURSIVE SumWeighted_NoIntensity(_, _)
SumWeighted_NoIntensity(vals, i) ==
    IF i > Len(vals) \/ i > Len(SENSOR_POSITIONS) THEN 0
    ELSE (IF vals[i] >= SENSOR_THRESHOLD THEN SENSOR_POSITIONS[i] ELSE 0)
         + SumWeighted_NoIntensity(vals, i + 1)

RECURSIVE SumTotal(_, _)
SumTotal(vals, i) ==
    IF i > Len(vals) \/ i > Len(SENSOR_POSITIONS) THEN 0
    ELSE (IF vals[i] >= SENSOR_THRESHOLD THEN vals[i] ELSE 0)
         + SumTotal(vals, i + 1)

RECURSIVE SumWeighted(_, _)
SumWeighted(vals, i) ==
    IF i > Len(vals) \/ i > Len(SENSOR_POSITIONS) THEN 0
    ELSE (IF vals[i] >= SENSOR_THRESHOLD
          THEN SENSOR_POSITIONS[i] * vals[i] ELSE 0)
         + SumWeighted(vals, i + 1)

\* [seen |-> FALSE] is the source's None.
sensor_reading_to_position(sensor_vals) ==
    LET total == SumTotal(sensor_vals, 1)
        weighted_sum == SumWeighted(sensor_vals, 1)
    IN  IF total = 0
        THEN [seen |-> FALSE, val |-> 0]
        ELSE [seen |-> TRUE, val |-> TruncDiv(weighted_sum * 1000, total)]

\* pid_steer without the clamp of line 164.
pid_steer_Unclamped(integ, prev, error, d) ==
    LET integral2 == integ + error * d
        derivative == IF d > 0 THEN TruncDiv((error - prev) * 1000, d) ELSE 0
        steering == TruncDiv(KP * error + TruncDiv(KI * integral2, 1000)
                             + KD * derivative, 1000)
    IN  [integral |-> integral2, prev_error |-> error, omega |-> steering]

\* New PID state and the clamped angular command.
pid_steer(integ, prev, error, d) ==
    LET integral2 == integ + error * d
        derivative == IF d > 0 THEN TruncDiv((error - prev) * 1000, d) ELSE 0
        steering == TruncDiv(KP * error + TruncDiv(KI * integral2, 1000)
                             + KD * derivative, 1000)
    IN  [integral |-> integral2,
         prev_error |-> error,
         omega |-> clamp(steering, -OMEGA_MAX, OMEGA_MAX)]

\* omega_to_wheel_speeds without the clamps of lines 178-179.
omega_to_wheel_speeds_Unclamped(v_cm_s, omega) ==
    <<v_cm_s - TruncDiv(omega * WHEEL_BASE_CM, 2),
      v_cm_s + TruncDiv(omega * WHEEL_BASE_CM, 2)>>

omega_to_wheel_speeds(v_cm_s, omega) ==
    LET v_r == v_cm_s + TruncDiv(omega * WHEEL_BASE_CM, 2)
        v_l == v_cm_s - TruncDiv(omega * WHEEL_BASE_CM, 2)
    IN  <<clamp(v_l, -MAX_LINEAR_SPEED, MAX_LINEAR_SPEED),
          clamp(v_r, -MAX_LINEAR_SPEED, MAX_LINEAR_SPEED)>>

\* A list that grows without limit.
WindowAppend_NoEviction(w, b) == Append(w, b)

\* deque(maxlen=LINE_WINDOW_SAMPLES).append
WindowAppend(w, b) ==
    IF Len(w) >= LINE_WINDOW_SAMPLES THEN Append(Tail(w), b) ELSE Append(w, b)

\* ------------------------------------------------------------------------
\* attempt_reacquire: derived quantities
\* ------------------------------------------------------------------------

DeadReckonSpeed(base) == TruncDiv(base * 4, 10)
DEAD_RECKON_TIMEOUT == Min(TruncDiv(GAP_MAX_REACQUIRE_TIME * 6, 10), 600)

\* The loop test of line 316 without its distance part.
DeadReckonContinue_TimeOnly(elapsed, dist) == elapsed < DEAD_RECKON_TIMEOUT

DeadReckonContinue(elapsed, dist) ==
    elapsed < DEAD_RECKON_TIMEOUT /\ dist < REACQUIRE_MAX_DISTANCE_CM

DeadReckonStepTime_None == DEAD_RECKON_STEP_S - DEAD_RECKON_STEP_S
DeadReckonStepTime == DEAD_RECKON_STEP_S

SWEEP_STEPS == GAP_SWEEP_ANGLE_DEG \div GAP_SWEEP_STEP

\* 0, +1, -1, +2, -2, ... for k in range(SWEEP_STEPS)
RECURSIVE SweepSeqFrom(_)
SweepSeqFrom(k) ==
    IF k >= SWEEP_STEPS THEN <<>>
    ELSE (IF k = 0 THEN <<0>> ELSE <<k, -k>>) \o SweepSeqFrom(k + 1)
sweep_dir_sequence == SweepSeqFrom(0)

\* The sweep's time check, made before every pulse.
SweepTimedOut(clock, t_gap, t_sweep) == clock - t_sweep > GAP_MAX_REACQUIRE_TIME

SweepCommand(step_mult) ==
    LET angle == step_mult * STEP_RAD
        omega == clamp(TruncDiv(angle, SWEEP_AIM_S), -OMEGA_MAX, OMEGA_MAX)
        v_l == -TruncDiv(omega * WHEEL_BASE_CM, 2)
        v_r == TruncDiv(omega * WHEEL_BASE_CM, 2)
    IN  <<clamp(v_l, -MAX_LINEAR_SPEED, MAX_LINEAR_SPEED),
          clamp(v_r, -MAX_LINEAR_SPEED, MAX_LINEAR_SPEED)>>

WiggleCommand(base) == <<TruncDiv(base * 2, 10), TruncDiv(base * 2, 10)>>

DeadReckonCommand(base) == <<DeadReckonSpeed(base), DeadReckonSpeed(base)>>

TrackSpeed(desired) == Min(desired, MAX_LINEAR_SPEED)

RECURSIVE SumSeq(_)
SumSeq(w) == IF Len(w) = 0 THEN 0 ELSE Head(w) + SumSeq(Tail(w))

\* The estimate with ">=" in place of the ">" of line 207.
classify_line_type_AtLeast(w) ==
    IF Len(w) = 0 THEN "unknown"
    ELSE IF SumSeq(w) * 100 >= 85 * Len(w) THEN "continuous"
    ELSE IF 40 * Len(w) <= SumSeq(w) * 100 THEN "dotted/broken"
    ELSE "mostly broken"

\* Navigator.classify_line_type on the window w: ratio = sum / len against
\* 0.85 and 0.4.
classify_line_type(w) ==
    IF Len(w) = 0 THEN "unknown"
    ELSE IF SumSeq(w) * 100 > 85 * Len(w) THEN "continuous"
    ELSE IF 40 * Len(w) <= SumSeq(w) * 100 THEN "dotted/broken"
    ELSE "mostly broken"

\* Lines 287-293: the estimate is taken when the window is full.
Classified(w, before) ==
    IF Len(w) = LINE_WINDOW_SAMPLES THEN classify_line_type(w) ELSE before

\* ------------------------------------------------------------------------
\* State
\* ------------------------------------------------------------------------

VARIABLES
    pc,                 \* position of main / follow_line / attempt_reacquire
    now,                \* time.time()
    desired_speed_cm_s, \* follow_line argument (base_speed_cm_s in recovery)
    run_time_s,         \* follow_line argument
    t_start,            \* follow_line local
    last_time,          \* follow_line local (equals t_now after line 237)
    dt,                 \* follow_line local
    sees_line,          \* follow_line local
    pos,                \* follow_line local (meaningful when sees_line)
    classification,     \* follow_line local (line 289); "unset" before
    integral,           \* Navigator.integral
    prev_error,         \* Navigator.prev_error
    line_presence_window,         \* Navigator.line_presence_window
    distance_since_window_start,  \* Navigator.distance_since_window_start
    last_encoder_read,  \* Navigator._last_encoder_read
    motor,              \* last (left, right) given to set_motor_speeds; <<>> before any
    motor_by,           \* the function that gave the last command
    outs,               \* history: the commands given so far, in a compared run
    reads,              \* history: what the drivers returned, in a compared run
    result,             \* what follow_line handed to main
    encoder_kind,       \* the encoder hardware of this run
    sensor_absent,      \* the line-sensor driver raises NotImplementedError from now on
    ticks,              \* iterations of follow_line's loop started so far
    gaps,               \* ticks without line so far
    t0,                 \* attempt_reacquire local
    t_dead_start,       \* attempt_reacquire local
    dist_travelled,     \* attempt_reacquire local
    sweep_start_time,   \* attempt_reacquire local
    idx,                \* attempt_reacquire: index into sweep_dir_sequence (from 1)
    wiggle_i,           \* attempt_reacquire: wiggle pulses done
    arSawOther,         \* history: a sample of this recovery was not "no line"
    arUnavail,          \* history: a read of this recovery raised NotImplementedError
    arReadsAfter,       \* history: sensor reads of this recovery after that read
    arPulsesAfter       \* history: non-zero pulses of this recovery after that read

wheels == <<motor, motor_by, outs>>
locals == <<dt, sees_line, pos>>
pidState == <<integral, prev_error>>
windowState == <<line_presence_window, distance_since_window_start>>
params == <<desired_speed_cm_s, run_time_s, t_start, encoder_kind>>
arLocals == <<t0, t_dead_start, dist_travelled, sweep_start_time, idx, wiggle_i>>
arHistory == <<arSawOther, arUnavail, arReadsAfter, arPulsesAfter>>

lineVars == <<pc, now, params, last_time, locals, classification, pidState,
              windowState, last_encoder_read, wheels, reads, result,
              sensor_absent, ticks, gaps, arLocals, arHistory>>

\* Transformation3D.rotate_vector, called twice (src/systems/navigation_system.py)
VARIABLES
    rot_pc,             \* "idle", "input", "rotated" or "restored"
    vector,             \* the vector handed to the first rotate_vector call
    rotated,            \* the result of the latest rotate_vector call
    angles              \* <<yaw, pitch, roll>> of both calls, in degrees

rotVars == <<rot_pc, vector, rotated, angles>>

\* Navigation3D.run_continuous_update (src/systems/navigation_system.py)
VARIABLES
    nav_pc,             \* "idle", "start", "calibrating", "update" or "sleep"
    imu,                \* "none" (imu is None) or "present"
    do_calibrate,       \* kwarg calibrate
    log_state_enabled,  \* kwarg log_state
    nav_now,            \* time.time() of the event loop
    start_time,         \* Navigation3D.start_time
    cal_i,              \* calibrate: samples taken
    accel_sum,          \* calibrate local
    gyro_sum,           \* calibrate local
    mag_sum,            \* calibrate local
    nav_pos,            \* Location3D.pos
    velocity,           \* Location3D.velocity
    acceleration,       \* Location3D.acceleration
    accel_local,        \* Location3D.accel_local
    orientation,        \* Location3D.orientation  <<yaw, pitch, roll>>
    d_orientation,      \* Location3D.d_orientation
    a_orientation,      \* Location3D.a_orientation
    accel_bias,         \* Location3D.accel_bias
    gyro_bias,          \* Location3D.gyro_bias
    mag_baseline,       \* Location3D.mag_baseline
    calibrated,         \* Location3D.calibrated
    initialized,        \* Location3D.initialized
    log,                \* Navigation3D.log
    update_result,      \* what the latest update_position call returned
    nav_ticks           \* update_position calls made by the loop

navArgs == <<imu, do_calibrate, log_state_enabled>>
calLocals == <<cal_i, accel_sum, gyro_sum, mag_sum>>
calibration == <<accel_bias, gyro_bias, mag_baseline, calibrated>>
kinematics == <<nav_pos, velocity, acceleration, accel_local>>
attitude == <<orientation, d_orientation, a_orientation, initialized>>

navVars == <<nav_pc, navArgs, nav_now, start_time, calLocals, kinematics,
             attitude, calibration, log, update_result, nav_ticks>>

\* Direct calls of single Navigator methods by a caller (src/poc/poc_example.py)
VARIABLES
    called,             \* the method whose call returned last, "none" before
    args,               \* the arguments of that call
    ret,                \* what it returned
    calls               \* calls made so far

callVars == <<called, args, ret, calls>>

\* The tasks that run beside run_continuous_update in one event loop
\* (src/tests/navigation_display_test.py): NavigationDisplay.run_continuous
\* (src/ui/navigation_display.py) and MotionController.start_safety_ring
\* (src/systems/mobility_system.py)
VARIABLES
    disp_pc,            \* "idle", "start", "sleep" (in asyncio.sleep) or "done"
    disp_running,       \* NavigationDisplay.running
    disp_position,      \* NavigationDisplay.position
    disp_orientation,   \* NavigationDisplay.orientation
    disp_velocity,      \* NavigationDisplay.velocity
    disp_acceleration,  \* NavigationDisplay.acceleration
    ring_pc,            \* "idle", "start" or "sleep" (in asyncio.sleep)
    moving,             \* MotionController.moving
    current_speed,      \* MotionController.current_speed
    front_motor,        \* last command to front_motor: <<"start", speed>> or
                        \* <<"stop">>, <<>> before any
    ring_read,          \* history: what getDist gave the latest ring pass
    motion_op,          \* history: the MotionController method that ran last
    sent,               \* history: the motor commands that method sent
    tick_state          \* history: the pose when the latest tick was complete

snapshot == <<disp_position, disp_orientation, disp_velocity, disp_acceleration>>
displayVars == <<disp_pc, disp_running, snapshot>>
ringLog == <<ring_read, motion_op, sent>>
ringVars == <<ring_pc, moving, current_speed, front_motor, ringLog>>
taskVars == <<displayVars, ringVars, tick_state>>

\* Two follow_line calls that are compared: on Navigators that differ in the
\* window only, with the drivers returning the same values to both.
VARIABLES
    run,                \* 0: no comparison; 1, 2: the call that is running
    tape,               \* what the drivers returned during the first call
    outs1,              \* the commands the first call gave
    result1,            \* what the first call returned
    classification1     \* the line type the first call last estimated

pairVars == <<run, tape, outs1, result1, classification1>>

\* The variables of the other parts of the model.
otherVars == <<rotVars, navVars, callVars, taskVars, pairVars>>
notRot == <<lineVars, navVars, callVars, taskVars, pairVars>>
notNav == <<lineVars, rotVars, callVars, taskVars, pairVars>>

vars == <<lineVars, rotVars, navVars, callVars, taskVars, pairVars>>

\* No comparison of two calls is modelled.
PairIdle ==
    /\ run = 0
    /\ tape = <<>>
    /\ outs1 = <<>>
    /\ result1 = "none"
    /\ classification1 = "unset"

\* No direct method call is modelled.
CallIdle ==
    /\ called = "none"
    /\ args = <<>>
    /\ ret = <<>>
    /\ calls = 0

\* NavigationDisplay.__init__ (lines 42-45, 70): nothing shown yet.
DisplayFresh ==
    /\ disp_running = FALSE
    /\ disp_position = <<0, 0, 0>>
    /\ disp_orientation = <<0, 0, 0>>
    /\ disp_velocity = <<0, 0, 0>>
    /\ disp_acceleration = <<0, 0, 0>>

\* No display and no safety ring is modelled.
TasksIdle ==
    /\ DisplayFresh
    /\ disp_pc = "idle"
    /\ ring_pc = "idle"
    /\ moving = TRUE
    /\ current_speed = 0
    /\ front_motor = <<"stop">>
    /\ ring_read = <<>>
    /\ motion_op = "none"
    /\ sent = <<>>
    /\ tick_state = <<<<0, 0, 0>>, <<0, 0, 0>>, <<0, 0, 0>>, <<0, 0, 0>>>>

RecoveryPcs == {"ar_enter", "dr_loop", "dr_read", "dr_enc", "ar_stop",
                "sw_loop", "sw_stop", "sw_read", "wg_loop", "wg_stop", "wg_read"}

\* No rotate_vector call is modelled.
RotIdle ==
    /\ rot_pc = "idle"
    /\ vector = <<0, 0, 0>>
    /\ rotated = <<0, 0, 0>>
    /\ angles = <<0, 0, 0>>

Zero3 == <<0, 0, 0>>

\* Location3D.__init__ and Navigation3D.__init__ with the default position and
\* orientation, and the locals of calibrate before any call.
NavigationFreshAt(position, orient) ==
    /\ nav_now = 0
    /\ start_time = 0
    /\ cal_i = 0
    /\ accel_sum = Zero3
    /\ gyro_sum = Zero3
    /\ mag_sum = 0
    /\ nav_pos = position
    /\ velocity = Zero3
    /\ acceleration = Zero3
    /\ accel_local = Zero3
    /\ orientation = orient
    /\ d_orientation = Zero3
    /\ a_orientation = Zero3
    /\ accel_bias = Zero3
    /\ gyro_bias = Zero3
    /\ mag_baseline = 0
    /\ calibrated = FALSE
    /\ initialized = FALSE
    /\ log = <<>>
    /\ update_result = "none"
    /\ nav_ticks = 0

\* Location3D() without the position and orientation arguments.
NavigationFresh == NavigationFreshAt(Zero3, Zero3)

\* No Navigation3D call is modelled.
NavIdle ==
    /\ NavigationFresh
    /\ nav_pc = "idle"
    /\ imu = "none"
    /\ do_calibrate = FALSE
    /\ log_state_enabled = FALSE

\* Navigator.__init__, the locals of its methods before any call, and the
\* clock at the call.
NavigatorWith(window, window_distance) ==
    /\ now = 0
    /\ t_start = 0
    /\ last_time = 0
    /\ dt = 0
    /\ sees_line = FALSE
    /\ pos = 0
    /\ integral = 0
    /\ prev_error = 0
    /\ line_presence_window = window
    /\ distance_since_window_start = window_distance
    /\ last_encoder_read = <<0, 0>>
    /\ motor = <<>>
    /\ motor_by = "none"
    /\ outs = <<>>
    /\ reads = <<>>
    /\ classification = "unset"
    /\ result = "running"
    /\ sensor_absent = FALSE
    /\ ticks = 0
    /\ gaps = 0
    /\ t0 = 0
    /\ t_dead_start = 0
    /\ dist_travelled = 0
    /\ sweep_start_time = 0
    /\ idx = 0
    /\ wiggle_i = 0
    /\ arSawOther = FALSE
    /\ arUnavail = FALSE
    /\ arReadsAfter = 0
    /\ arPulsesAfter = 0

\* Navigator(): the window is empty.
NavigatorFresh == NavigatorWith(<<>>, 0)

\* Navigator(), its hardware and the caller's speed.
Constructed ==
    /\ NavigatorFresh
    /\ desired_speed_cm_s \in Speeds
    /\ encoder_kind \in EncoderKinds

\* No Navigator call is modelled.
LineIdle ==
    /\ NavigatorFresh
    /\ pc = "idle"
    /\ desired_speed_cm_s = 0
    /\ run_time_s = 0
    /\ encoder_kind = "unsupported"

\* main: Navigator() and the call follow_line(desired_speed_cm_s, run_time_s).
Init ==
    /\ Constructed
    /\ RotIdle
    /\ NavIdle
    /\ CallIdle
    /\ TasksIdle
    /\ PairIdle
    /\ pc = "start"
    /\ run_time_s \in RunTimes

\* Navigator() and a direct call attempt_reacquire(base_speed_cm_s); the
\* run time is not used by it.
InitRecovery ==
    /\ Constructed
    /\ RotIdle
    /\ NavIdle
    /\ CallIdle
    /\ TasksIdle
    /\ PairIdle
    /\ pc = "ar_enter"
    /\ run_time_s = 0

\* ------------------------------------------------------------------------
\* follow_line
\* ------------------------------------------------------------------------

\* The motor driver: the command reaches the wheels.
set_motor_speeds(cmd, by) ==
    /\ motor' = cmd
    /\ motor_by' = by
    /\ outs' = IF run = 0 THEN outs ELSE Append(outs, cmd)

\* A driver call returned: raised names the exception ("" for none), value
\* is what came back.
Returned(driver, raised, value) ==
    reads' = IF run = 0 THEN reads ELSE Append(reads, <<driver, raised, value>>)

\* The locals of attempt_reacquire after follow_line took its True, or after
\* it raised.
ArLocalsGone ==
    /\ t0' = 0
    /\ t_dead_start' = 0
    /\ dist_travelled' = 0
    /\ sweep_start_time' = 0
    /\ idx' = 0
    /\ wiggle_i' = 0

\* The reading a read_encoders call returns, given what it adds.
EncoderReading(delta) ==
    <<last_encoder_read[1] + delta[1], last_encoder_read[2] + delta[2]>>

\* Lines 218-228: timestamps and the encoder baseline.
FollowLineStart ==
    /\ pc = "start"
    /\ \E e \in EncoderReads(encoder_kind, FALSE) :
         /\ last_encoder_read' = IF Raises(e) THEN last_encoder_read
                                 ELSE EncoderReading(e)
         /\ Returned("read_encoders", IF Raises(e) THEN "Exception" ELSE "", e)
    /\ pc' = "loop"
    /\ UNCHANGED <<ticks, now, params, last_time, locals, pidState, windowState,
                   wheels, result, sensor_absent, gaps, arLocals, arHistory>>
    /\ UNCHANGED otherVars
    /\ UNCHANGED classification

\* Lines 231-237: wait for the rest of the period, take the tick's time.
TickSleep ==
    /\ pc = "loop"
    /\ ticks < MaxTicks
    /\ ticks' = ticks + 1
    /\ now' = IF now - last_time < LOOP_DT
              THEN Sleep(now, LOOP_DT - (now - last_time)) ELSE now
    /\ dt' = now' - last_time
    /\ last_time' = now'
    /\ pc' = "read"
    /\ UNCHANGED <<params, sees_line, pos, pidState, windowState,
                   last_encoder_read, wheels, result, sensor_absent, gaps,
                   arLocals, arHistory>>
    /\ UNCHANGED otherVars
    /\ UNCHANGED <<reads, classification>>

\* Lines 239-248: read the sensor array.
ReadSensors ==
    /\ pc = "read"
    /\ \/ \* a frame
          /\ ~sensor_absent
          /\ \E f \in Frames :
               LET p == sensor_reading_to_position(f) IN
               /\ p.seen \/ gaps < MaxGaps
               /\ sees_line' = p.seen
               /\ pos' = p.val
               /\ gaps' = IF p.seen THEN gaps ELSE gaps + 1
               /\ Returned("read_line_sensors", "", f)
          /\ pc' = "encoders"
          /\ UNCHANGED <<result, sensor_absent>>
       \/ \* NotImplementedError: print and break; follow_line returns None
          /\ sensor_absent' = TRUE
          /\ pc' = "done"
          /\ result' = "None"
          /\ Returned("read_line_sensors", "NotImplementedError", <<>>)
          /\ UNCHANGED <<sees_line, pos, gaps>>
       \/ \* any other exception leaves follow_line and main
          /\ ~sensor_absent
          /\ pc' = "done"
          /\ result' = "raised"
          /\ Returned("read_line_sensors", "Exception", <<>>)
          /\ UNCHANGED <<sees_line, pos, gaps, sensor_absent>>
    /\ UNCHANGED <<ticks, now, params, last_time, dt, pidState, windowState,
                   last_encoder_read, wheels, arLocals, arHistory>>
    /\ UNCHANGED otherVars
    /\ UNCHANGED classification

\* An encoder step whose failed read counts as no distance.
ReadEncoders_NoFallback ==
    /\ pc = "encoders"
    /\ \E e \in EncoderReads(encoder_kind, FALSE) :
         /\ last_encoder_read' = IF Raises(e) THEN last_encoder_read
                                 ELSE EncoderReading(e)
         /\ line_presence_window' =
               WindowAppend(line_presence_window, IF sees_line THEN 1 ELSE 0)
         /\ distance_since_window_start' =
               distance_since_window_start
                 + (IF Raises(e) THEN 0 ELSE TruncDiv(e[1] + e[2], 2))
         /\ Returned("read_encoders", IF Raises(e) THEN "Exception" ELSE "", e)
    /\ pc' = IF sees_line THEN "track" ELSE "ar_enter"
    /\ UNCHANGED <<ticks, now, params, last_time, locals, pidState, wheels, result,
                   sensor_absent, gaps, arLocals, arHistory>>
    /\ UNCHANGED otherVars
    /\ UNCHANGED classification

\* Lines 250-264 and the branch of line 266/275.
ReadEncoders ==
    /\ pc = "encoders"
    /\ \E e \in EncoderReads(encoder_kind, FALSE) :
         LET distance_increment ==
               IF Raises(e)
               THEN TruncDiv(desired_speed_cm_s * dt, 1000)
               ELSE TruncDiv(e[1] + e[2], 2)
         IN
         /\ last_encoder_read' = IF Raises(e) THEN last_encoder_read
                                 ELSE EncoderReading(e)
         /\ line_presence_window' =
               WindowAppend(line_presence_window, IF sees_line THEN 1 ELSE 0)
         /\ distance_since_window_start' =
               distance_since_window_start + distance_increment
         /\ Returned("read_encoders", IF Raises(e) THEN "Exception" ELSE "", e)
    /\ pc' = IF sees_line THEN "track" ELSE "ar_enter"
    /\ UNCHANGED <<ticks, now, params, last_time, locals, pidState, wheels, result,
                   sensor_absent, gaps, arLocals, arHistory>>
    /\ UNCHANGED otherVars
    /\ UNCHANGED classification

\* A Track that halves the speed on a track it takes for mostly broken.
Track_ByLineType ==
    /\ pc = "track"
    /\ LET s == pid_steer(integral, prev_error, pos, dt)
           v == IF Classified(line_presence_window, classification) = "mostly broken"
                THEN TruncDiv(TrackSpeed(desired_speed_cm_s), 2)
                ELSE TrackSpeed(desired_speed_cm_s)
       IN
       /\ integral' = s.integral
       /\ prev_error' = s.prev_error
       /\ set_motor_speeds(omega_to_wheel_speeds(v, s.omega), "follow_line")
    /\ classification' = Classified(line_presence_window, classification)
    /\ pc' = IF last_time - t_start > run_time_s THEN "expired" ELSE "loop"
    /\ UNCHANGED <<ticks, now, params, last_time, locals, windowState,
                   last_encoder_read, result, sensor_absent, gaps,
                   arLocals, arHistory>>
    /\ UNCHANGED otherVars
    /\ UNCHANGED reads

\* Lines 266-274 and 287-299 up to the run-time test.
Track ==
    /\ pc = "track"
    /\ LET s == pid_steer(integral, prev_error, pos, dt)
           v == TrackSpeed(desired_speed_cm_s)
       IN
       /\ integral' = s.integral
       /\ prev_error' = s.prev_error
       /\ set_motor_speeds(omega_to_wheel_speeds(v, s.omega), "follow_line")
    /\ classification' = Classified(line_presence_window, classification)
    /\ pc' = IF last_time - t_start > run_time_s THEN "expired" ELSE "loop"
    /\ UNCHANGED <<ticks, now, params, last_time, locals, windowState,
                   last_encoder_read, result, sensor_absent, gaps,
                   arLocals, arHistory>>
    /\ UNCHANGED otherVars
    /\ UNCHANGED reads

\* Lines 296-299.
StopOnExpiry ==
    /\ pc = "expired"
    /\ set_motor_speeds(stop_motors, "follow_line")
    /\ result' = "True"
    /\ pc' = "done"
    /\ UNCHANGED <<ticks, now, params, last_time, locals, pidState, windowState,
                   last_encoder_read, sensor_absent, gaps, arLocals, arHistory>>
    /\ UNCHANGED otherVars
    /\ UNCHANGED <<reads, classification>>

\* Lines 279-282: attempt_reacquire returned False.
FollowLineRecoveryFailed_NoStop ==
    /\ pc = "ar_failed"
    /\ result' = "False"
    /\ pc' = "done"
    /\ t0' = 0
    /\ UNCHANGED <<ticks, now, params, last_time, locals, pidState, windowState,
                   last_encoder_read, wheels, sensor_absent, gaps, t_dead_start,
                   dist_travelled, sweep_start_time, idx, wiggle_i, arHistory>>
    /\ UNCHANGED otherVars
    /\ UNCHANGED <<reads, classification>>

FollowLineRecoveryFailed ==
    /\ pc = "ar_failed"
    /\ set_motor_speeds(stop_motors, "follow_line")
    /\ result' = "False"
    /\ pc' = "done"
    /\ t0' = 0
    /\ UNCHANGED <<ticks, now, params, last_time, locals, pidState, windowState,
                   last_encoder_read, sensor_absent, gaps, t_dead_start,
                   dist_travelled, sweep_start_time, idx, wiggle_i, arHistory>>
    /\ UNCHANGED otherVars
    /\ UNCHANGED <<reads, classification>>

\* A resumption that takes the time of the reacquisition as the last tick's.
FollowLineReacquired_FreshClock ==
    /\ pc = "ar_ok"
    /\ pc' = "loop"
    /\ ArLocalsGone
    /\ last_time' = now
    /\ UNCHANGED <<ticks, now, params, locals, pidState, windowState,
                   last_encoder_read, wheels, result, sensor_absent, gaps,
                   arHistory>>
    /\ UNCHANGED otherVars
    /\ UNCHANGED <<reads, classification>>

\* A resumption that starts the PID controller afresh.
FollowLineReacquired_ResetPid ==
    /\ pc = "ar_ok"
    /\ pc' = "loop"
    /\ ArLocalsGone
    /\ integral' = 0
    /\ prev_error' = 0
    /\ UNCHANGED <<ticks, now, params, last_time, locals, windowState,
                   last_encoder_read, wheels, result, sensor_absent, gaps,
                   arHistory>>
    /\ UNCHANGED otherVars
    /\ UNCHANGED <<reads, classification>>

\* Lines 283-285: attempt_reacquire returned True; continue with the next tick.
FollowLineReacquired ==
    /\ pc = "ar_ok"
    /\ pc' = "loop"
    /\ ArLocalsGone
    /\ UNCHANGED <<ticks, now, params, last_time, locals, pidState, windowState,
                   last_encoder_read, wheels, result, sensor_absent, gaps,
                   arHistory>>
    /\ UNCHANGED otherVars
    /\ UNCHANGED <<reads, classification>>

\* ------------------------------------------------------------------------
\* attempt_reacquire
\* ------------------------------------------------------------------------

\* Lines 309-315.
ReacquireEnter ==
    /\ pc = "ar_enter"
    /\ t0' = now
    /\ t_dead_start' = now
    /\ dist_travelled' = 0
    /\ arSawOther' = FALSE
    /\ arUnavail' = FALSE
    /\ arReadsAfter' = 0
    /\ arPulsesAfter' = 0
    /\ pc' = "dr_loop"
    /\ UNCHANGED <<ticks, now, params, last_time, locals, pidState, windowState,
                   last_encoder_read, wheels, result, sensor_absent, gaps,
                   sweep_start_time, idx, wiggle_i>>
    /\ UNCHANGED otherVars
    /\ UNCHANGED <<reads, classification>>

\* A read_line_sensors call of attempt_reacquire with the test that follows
\* it: a frame with the line returns True ("ar_ok"); a frame without goes to onNone; NotImplementedError breaks to
\* onBreak; any other exception leaves attempt_reacquire, follow_line and main.
RecoveryRead(onNone, onBreak) ==
    /\ arReadsAfter' = IF arUnavail THEN arReadsAfter + 1 ELSE arReadsAfter
    /\ \/ /\ ~sensor_absent
          /\ \E f \in Frames :
               LET p == sensor_reading_to_position(f) IN
               /\ pc' = IF p.seen THEN "ar_ok" ELSE onNone
               /\ arSawOther' = (arSawOther \/ p.seen)
               /\ Returned("read_line_sensors", "", f)
          /\ UNCHANGED <<sensor_absent, arUnavail, result>>
       \/ /\ sensor_absent' = TRUE
          /\ arUnavail' = TRUE
          /\ arSawOther' = TRUE
          /\ pc' = onBreak
          /\ Returned("read_line_sensors", "NotImplementedError", <<>>)
          /\ UNCHANGED result
       \/ /\ ~sensor_absent
          /\ pc' = "done"
          /\ result' = "raised"
          /\ arSawOther' = TRUE
          /\ Returned("read_line_sensors", "Exception", <<>>)
          /\ UNCHANGED <<sensor_absent, arUnavail>>

\* A pulse command issued after a failed read counts when it drives a wheel.
CountPulse(cmd) ==
    arPulsesAfter' = IF arUnavail /\ cmd # stop_motors
                     THEN arPulsesAfter + 1 ELSE arPulsesAfter

\* Lines 316-320: the loop test, the drive command and the sleep.
DeadReckonDrive ==
    /\ pc = "dr_loop"
    /\ IF DeadReckonContinue(now - t_dead_start, dist_travelled)
       THEN /\ set_motor_speeds(DeadReckonCommand(desired_speed_cm_s), "attempt_reacquire")
            /\ now' = Sleep(now, DeadReckonStepTime)
            /\ pc' = "dr_read"
       ELSE /\ pc' = "ar_stop"
            /\ UNCHANGED <<wheels, now>>
    /\ UNCHANGED <<ticks, params, last_time, locals, pidState, windowState,
                   last_encoder_read, result, sensor_absent, gaps,
                   arLocals, arHistory>>
    /\ UNCHANGED otherVars
    /\ UNCHANGED <<reads, classification>>

\* Lines 321-329.
DeadReckonRead ==
    /\ pc = "dr_read"
    /\ RecoveryRead("dr_enc", "ar_stop")
    /\ IF pc' = "done" THEN ArLocalsGone ELSE UNCHANGED arLocals
    /\ UNCHANGED <<ticks, now, params, last_time, locals, pidState, windowState,
                   last_encoder_read, wheels, gaps, arPulsesAfter>>
    /\ UNCHANGED otherVars
    /\ UNCHANGED classification

\* Lines 330-338.
DeadReckonEncoders ==
    /\ pc = "dr_enc"
    /\ \E e \in EncoderReads(encoder_kind, TRUE) :
         /\ last_encoder_read' = IF Raises(e) THEN last_encoder_read
                                 ELSE EncoderReading(e)
         /\ dist_travelled' = dist_travelled +
               (IF Raises(e)
                THEN TruncDiv(DeadReckonSpeed(desired_speed_cm_s)
                              * DEAD_RECKON_STEP_S, 1000)
                ELSE TruncDiv(e[1] + e[2], 2))
         /\ Returned("read_encoders", IF Raises(e) THEN "Exception" ELSE "", e)
    /\ pc' = "dr_loop"
    /\ UNCHANGED <<ticks, now, params, last_time, locals, pidState, windowState,
                   wheels, result, sensor_absent, gaps, t0, t_dead_start,
                   sweep_start_time, idx, wiggle_i, arHistory>>
    /\ UNCHANGED otherVars
    /\ UNCHANGED classification

\* Lines 343-356 without the stop_motors() of line 341.
StopForward_NoStop ==
    /\ pc = "ar_stop"
    /\ sweep_start_time' = now
    /\ idx' = 1
    /\ t_dead_start' = 0
    /\ dist_travelled' = 0
    /\ pc' = "sw_loop"
    /\ UNCHANGED <<ticks, now, params, last_time, locals, pidState, windowState,
                   last_encoder_read, wheels, result, sensor_absent, gaps, t0,
                   wiggle_i, arHistory>>
    /\ UNCHANGED otherVars
    /\ UNCHANGED <<reads, classification>>

\* Lines 340-356: stop, then set up the sweep.
StopForward ==
    /\ pc = "ar_stop"
    /\ set_motor_speeds(stop_motors, "attempt_reacquire")
    /\ sweep_start_time' = now
    /\ idx' = 1
    /\ t_dead_start' = 0
    /\ dist_travelled' = 0
    /\ pc' = "sw_loop"
    /\ UNCHANGED <<ticks, now, params, last_time, locals, pidState, windowState,
                   last_encoder_read, result, sensor_absent, gaps, t0,
                   wiggle_i, arHistory>>
    /\ UNCHANGED otherVars
    /\ UNCHANGED <<reads, classification>>

\* Lines 358-373: next element of the sequence, the time check, the pulse.
SweepPulse ==
    /\ pc = "sw_loop"
    /\ IF idx > Len(sweep_dir_sequence)
          \/ SweepTimedOut(now, t0, sweep_start_time)
       THEN /\ pc' = "wg_loop"
            /\ idx' = 0
            /\ sweep_start_time' = 0
            /\ wiggle_i' = 0
            /\ UNCHANGED <<wheels, now, arPulsesAfter>>
       ELSE /\ set_motor_speeds(SweepCommand(sweep_dir_sequence[idx]), "attempt_reacquire")
            /\ CountPulse(SweepCommand(sweep_dir_sequence[idx]))
            /\ now' = Sleep(now, SWEEP_PULSE_S)
            /\ pc' = "sw_stop"
            /\ UNCHANGED <<idx, sweep_start_time, wiggle_i>>
    /\ UNCHANGED <<ticks, params, last_time, locals, pidState, windowState,
                   last_encoder_read, result, sensor_absent, gaps, t0,
                   t_dead_start, dist_travelled, arSawOther, arUnavail,
                   arReadsAfter>>
    /\ UNCHANGED otherVars
    /\ UNCHANGED <<reads, classification>>

\* Lines 374-376 without the stop_motors() of line 375.
SweepStop_NoStop ==
    /\ pc = "sw_stop"
    /\ now' = Sleep(now, SWEEP_SETTLE_S)
    /\ pc' = "sw_read"
    /\ UNCHANGED <<ticks, params, last_time, locals, pidState, windowState,
                   last_encoder_read, wheels, result, sensor_absent, gaps,
                   arLocals, arHistory>>
    /\ UNCHANGED otherVars
    /\ UNCHANGED <<reads, classification>>

\* Lines 374-376.
SweepStop ==
    /\ pc = "sw_stop"
    /\ set_motor_speeds(stop_motors, "attempt_reacquire")
    /\ now' = Sleep(now, SWEEP_SETTLE_S)
    /\ pc' = "sw_read"
    /\ UNCHANGED <<ticks, params, last_time, locals, pidState, windowState,
                   last_encoder_read, result, sensor_absent, gaps,
                   arLocals, arHistory>>
    /\ UNCHANGED otherVars
    /\ UNCHANGED <<reads, classification>>

\* Lines 377-384.
SweepRead ==
    /\ pc = "sw_read"
    /\ RecoveryRead("sw_loop", "wg_loop")
    /\ IF pc' = "done" THEN ArLocalsGone
       ELSE /\ idx' = CASE pc' = "sw_loop" -> idx + 1
                        [] pc' = "ar_ok" -> idx
                        [] OTHER -> 0
            /\ sweep_start_time' = IF pc' \in {"sw_loop", "ar_ok"}
                                   THEN sweep_start_time ELSE 0
            /\ wiggle_i' = 0
            /\ UNCHANGED <<t0, t_dead_start, dist_travelled>>
    /\ UNCHANGED <<ticks, now, params, last_time, locals, pidState, windowState,
                   last_encoder_read, wheels, gaps, arPulsesAfter>>
    /\ UNCHANGED otherVars
    /\ UNCHANGED classification

\* Lines 387-390, and line 402 when the three tries are used up.
WigglePulse ==
    /\ pc = "wg_loop"
    /\ IF wiggle_i >= WIGGLE_TRIES
       THEN /\ pc' = "ar_failed"
            /\ wiggle_i' = 0
            /\ UNCHANGED <<wheels, now, arPulsesAfter>>
       ELSE /\ set_motor_speeds(WiggleCommand(desired_speed_cm_s), "attempt_reacquire")
            /\ CountPulse(WiggleCommand(desired_speed_cm_s))
            /\ now' = Sleep(now, WIGGLE_PULSE_S)
            /\ pc' = "wg_stop"
            /\ UNCHANGED wiggle_i
    /\ UNCHANGED <<ticks, params, last_time, locals, pidState, windowState,
                   last_encoder_read, result, sensor_absent, gaps, t0,
                   t_dead_start, dist_travelled, sweep_start_time, idx,
                   arSawOther, arUnavail, arReadsAfter>>
    /\ UNCHANGED otherVars
    /\ UNCHANGED <<reads, classification>>

\* The settle time without the stop_motors() of line 391.
WiggleStop_NoStop ==
    /\ pc = "wg_stop"
    /\ now' = Sleep(now, WIGGLE_SETTLE_S)
    /\ pc' = "wg_read"
    /\ UNCHANGED <<ticks, params, last_time, locals, pidState, windowState,
                   last_encoder_read, wheels, result, sensor_absent, gaps,
                   arLocals, arHistory>>
    /\ UNCHANGED otherVars
    /\ UNCHANGED <<reads, classification>>

\* Lines 391-392.
WiggleStop ==
    /\ pc = "wg_stop"
    /\ set_motor_speeds(stop_motors, "attempt_reacquire")
    /\ now' = Sleep(now, WIGGLE_SETTLE_S)
    /\ pc' = "wg_read"
    /\ UNCHANGED <<ticks, params, last_time, locals, pidState, windowState,
                   last_encoder_read, result, sensor_absent, gaps,
                   arLocals, arHistory>>
    /\ UNCHANGED otherVars
    /\ UNCHANGED <<reads, classification>>

\* Lines 393-402.
WiggleRead ==
    /\ pc = "wg_read"
    /\ RecoveryRead("wg_loop", "ar_failed")
    /\ IF pc' = "done" THEN ArLocalsGone
       ELSE /\ wiggle_i' = CASE pc' = "wg_loop" -> wiggle_i + 1
                             [] pc' = "ar_ok" -> wiggle_i
                             [] OTHER -> 0
            /\ UNCHANGED <<t0, t_dead_start, dist_travelled,
                           sweep_start_time, idx>>
    /\ UNCHANGED <<ticks, now, params, last_time, locals, pidState, windowState,
                   last_encoder_read, wheels, gaps, arPulsesAfter>>
    /\ UNCHANGED otherVars
    /\ UNCHANGED classification

\* ------------------------------------------------------------------------
\* Part 2  src/systems/navigation_system.py : Transformation3D
\*
\* mode = "degrees", angles that are multiples of 90 degrees: every matrix
\* entry is exactly -1, 0 or 1.
\* ------------------------------------------------------------------------

\* Input vectors and angles of the rotate_vector calls.
Vectors == {<<1, 0, 0>>, <<0, 1, 0>>, <<0, 0, 1>>, <<1, 2, 3>>}
RightAngles == {0, 90, 180, 270}

\* math.cos(math.radians(a)) and math.sin(math.radians(a)).
CosDeg(a) == CASE a % 360 = 0 -> 1 [] a % 360 = 180 -> -1 [] OTHER -> 0
SinDeg(a) == CASE a % 360 = 90 -> 1 [] a % 360 = 270 -> -1 [] OTHER -> 0

\* np.transpose, np.matmul of 3x3 matrices, np.matmul of a matrix and a vector.
Transpose(A) == [i \in 1..3 |-> [j \in 1..3 |-> A[j][i]]]
MatMul(A, B) ==
    [i \in 1..3 |-> [j \in 1..3 |->
        A[i][1] * B[1][j] + A[i][2] * B[2][j] + A[i][3] * B[3][j]]]
MatVec(A, v) ==
    [i \in 1..3 |-> A[i][1] * v[1] + A[i][2] * v[2] + A[i][3] * v[3]]

get_rotation_yaw(yaw, invert) ==
    LET R_yaw == << << CosDeg(yaw), SinDeg(yaw), 0>>,
                    <<-SinDeg(yaw), CosDeg(yaw), 0>>,
                    <<0, 0, 1>> >>
    IN  IF invert THEN Transpose(R_yaw) ELSE R_yaw

get_rotation_pitch(pitch, invert) ==
    LET R_pitch == << <<CosDeg(pitch), 0, -SinDeg(pitch)>>,
                      <<0, 1, 0>>,
                      <<SinDeg(pitch), 0, CosDeg(pitch)>> >>
    IN  IF invert THEN Transpose(R_pitch) ELSE R_pitch

get_rotation_roll(roll, invert) ==
    LET R_roll == << <<1, 0, 0>>,
                     <<0, CosDeg(roll), SinDeg(roll)>>,
                     <<0, -SinDeg(roll), CosDeg(roll)>> >>
    IN  IF invert THEN Transpose(R_roll) ELSE R_roll

get_rotation(yaw, pitch, roll, invert) ==
    MatMul(get_rotation_yaw(yaw, invert),
           MatMul(get_rotation_pitch(pitch, invert),
                  get_rotation_roll(roll, invert)))

rotate_vector(v, yaw, pitch, roll, invert) ==
    MatVec(get_rotation(yaw, pitch, roll, invert), v)

\* A caller that rotates a vector and then rotates the result back.
InitRot ==
    /\ LineIdle
    /\ NavIdle
    /\ CallIdle
    /\ TasksIdle
    /\ PairIdle
    /\ rot_pc = "input"
    /\ vector \in Vectors
    /\ rotated = <<0, 0, 0>>
    /\ angles \in RightAngles \X RightAngles \X RightAngles

\* rotate_vector(vector=vector, yaw, pitch, roll, invert=False)
RotateForward ==
    /\ rot_pc = "input"
    /\ rotated' = rotate_vector(vector, angles[1], angles[2], angles[3], FALSE)
    /\ rot_pc' = "rotated"
    /\ UNCHANGED <<vector, angles, notRot>>

\* rotate_vector(vector=<that result>, yaw, pitch, roll, invert=True)
RotateBack ==
    /\ rot_pc = "rotated"
    /\ rotated' = rotate_vector(rotated, angles[1], angles[2], angles[3], TRUE)
    /\ rot_pc' = "restored"
    /\ UNCHANGED <<vector, angles, notRot>>

NextRot ==
    \/ RotateForward
    \/ RotateBack

SpecRot == InitRot /\ [][NextRot]_vars

\* ------------------------------------------------------------------------
\* Part 3  src/systems/navigation_system.py : Location3D, Navigation3D
\*
\* Units: acceleration mm/s^2, velocity 1e-4 m/s, position micrometres,
\* angles degrees, angular rate deg/s, angular acceleration deg/s^2,
\* time ms.  The IMU samples keep every angle a multiple of 90 degrees.
\* ------------------------------------------------------------------------

GRAVITY == 9802
VELOCITY_DECAY == 20
ACCEL_THRESHOLD == 100
UPDATE_INTERVAL == 100
CAL_DELAY == 20

\* IMU readings: getAccel() (ax, ay, az), getGyro() (gx, gy, gz), getMag().
AccelAtRest == {<<0, 0, GRAVITY>>, <<60, 0, GRAVITY>>}
GyroAtRest == {Zero3, <<0, 0, 200>>}
AccelSamples == {<<0, 0, GRAVITY>>, <<1000, 0, GRAVITY>>}
GyroSamples == {Zero3, <<0, 0, 1800>>}
MagSamples == {<<30, 0, 40>>}

V3(f(_)) == <<f(1), f(2), f(3)>>
VAdd(a, b) == <<a[1] + b[1], a[2] + b[2], a[3] + b[3]>>
VSub(a, b) == <<a[1] - b[1], a[2] - b[2], a[3] - b[3]>>
Dot(a, b) == a[1] * b[1] + a[2] * b[2] + a[3] * b[3]

\* np.linalg.norm, rounded down.
Norm(v) ==
    CHOOSE k \in 0..(Abs3(v)) : k * k <= Dot(v, v) /\ Dot(v, v) < (k + 1) * (k + 1)

\* Transformation3D.translate_vector
translate_vector(v, translation) == VAdd(v, translation)

\* An integration that advances the orientation by the rate just read.
update_orientation_NewRate(o, d_o, a_o, init, bias, cal, gyro, d) ==
    LET raw == <<gyro[3], gyro[2], gyro[1]>>
        new_d_orientation == IF cal THEN VSub(raw, bias) ELSE raw
    IN  [orientation |->
            [i \in 1..3 |-> o[i] + TruncDiv(a_o[i] * d * d
                                            + 2000 * new_d_orientation[i] * d,
                                            2000000)],
         d_orientation |-> new_d_orientation,
         a_orientation |->
            [i \in 1..3 |-> TruncDiv((new_d_orientation[i] - d_o[i]) * 1000, d)],
         initialized |-> TRUE]

\* Location3D.update_orientation with an IMU: the new attitude state for a
\* gyro sample (gx, gy, gz) = (d_roll, d_pitch, d_yaw).
update_orientation(o, d_o, a_o, init, bias, cal, gyro, d) ==
    LET raw == <<gyro[3], gyro[2], gyro[1]>>
        new_d_orientation == IF cal THEN VSub(raw, bias) ELSE raw
    IN  IF ~init
        THEN [orientation |-> o,
              d_orientation |-> new_d_orientation,
              a_orientation |-> a_o,
              initialized |-> TRUE]
        ELSE [orientation |->
                 [i \in 1..3 |-> o[i] + TruncDiv(a_o[i] * d * d
                                                 + 2000 * d_o[i] * d, 2000000)],
              d_orientation |-> new_d_orientation,
              a_orientation |->
                 [i \in 1..3 |-> TruncDiv((new_d_orientation[i] - d_o[i]) * 1000, d)],
              initialized |-> TRUE]

\* The acceleration stored as it was computed.
NoiseThreshold_Keep(a) == a

\* The noise threshold of update_position, per axis.
NoiseThreshold(a) ==
    [i \in 1..3 |-> IF Abs1(a[i]) < ACCEL_THRESHOLD THEN 0 ELSE a[i]]

\* A decay test that takes one quiet axis for a quiet vector.
DecayApplies_AnyAxisQuiet(prev_acceleration) ==
    \E i \in 1..3 : Abs1(prev_acceleration[i]) < ACCEL_THRESHOLD

\* Velocity decay applies when the previous acceleration is below the threshold.
DecayApplies(prev_acceleration) ==
    Dot(prev_acceleration, prev_acceleration) < ACCEL_THRESHOLD * ACCEL_THRESHOLD

\* Lines 283-286: p = p0 + v0*dt + 0.5*a0*dt^2.
PositionStep(p, prev_velocity, prev_acceleration, d) ==
    translate_vector(p,
        [i \in 1..3 |-> TruncDiv(200 * prev_velocity[i] * d
                                 + prev_acceleration[i] * d * d, 2000)])

\* Lines 290-297: v = v0 + a0*dt, then the decay.
VelocityStep(prev_velocity, prev_acceleration, d) ==
    LET vel2 == translate_vector(prev_velocity,
                    [i \in 1..3 |-> TruncDiv(prev_acceleration[i] * d, 100)])
    IN  IF DecayApplies(prev_acceleration)
        THEN [i \in 1..3 |-> TruncDiv(vel2[i] * (1000 - VELOCITY_DECAY), 1000)]
        ELSE vel2

\* The sample taken as it is read.
LocalAcceleration_NoBias(accel) == accel

\* Lines 300-305: the accelerometer sample less the bias.
LocalAcceleration(accel) ==
    IF calibrated THEN VSub(accel, accel_bias) ELSE accel

\* Lines 311-329: to the global frame, less gravity, less noise.
GlobalAcceleration(local, o) ==
    LET rot == rotate_vector(local, o[1], o[2], o[3], TRUE)
        accel_global == IF ~calibrated THEN VSub(rot, <<0, 0, GRAVITY>>) ELSE rot
    IN  NoiseThreshold(accel_global)

\* An update that integrates with the acceleration it has just read.
update_position_FreshSample(accel, gyro, d) ==
    LET local == LocalAcceleration(accel)
        att == update_orientation(orientation, d_orientation, a_orientation,
                                  initialized, gyro_bias, calibrated, gyro, d)
        fresh == GlobalAcceleration(local, att.orientation)
    IN  [pos |-> PositionStep(nav_pos, velocity, fresh, d),
         velocity |-> VelocityStep(velocity, fresh, d),
         accel_local |-> local,
         acceleration |-> fresh,
         att |-> att]

\* Location3D.update_position with an IMU, for the samples read in the call.
update_position(accel, gyro, d) ==
    LET prev_acceleration == acceleration
        prev_velocity == velocity
        local == LocalAcceleration(accel)
        att == update_orientation(orientation, d_orientation, a_orientation,
                                  initialized, gyro_bias, calibrated, gyro, d)
    IN  [pos |-> PositionStep(nav_pos, prev_velocity, prev_acceleration, d),
         velocity |-> VelocityStep(prev_velocity, prev_acceleration, d),
         accel_local |-> local,
         acceleration |-> GlobalAcceleration(local, att.orientation),
         att |-> att]

\* Navigation3D.log_state
LogEntry(timestamp, p, v, a, o) ==
    [timestamp |-> timestamp, position |-> p, velocity |-> v,
     acceleration |-> a, orientation |-> o]

\* The call run_continuous_update(calibrate=..., log_state=...,
\* calibration_samples=CalSamples) on a fresh Navigation3D(imu=...).
InitNav ==
    /\ LineIdle
    /\ RotIdle
    /\ CallIdle
    /\ TasksIdle
    /\ PairIdle
    /\ NavigationFresh
    /\ nav_pc = "start"
    /\ imu \in {"none", "present"}
    /\ do_calibrate \in BOOLEAN
    /\ log_state_enabled \in BOOLEAN

\* A start that calibrates whenever calibration is requested.
NavStart_Recalibrates ==
    /\ nav_pc = "start"
    /\ IF do_calibrate /\ imu # "none"
       THEN /\ nav_pc' = "calibrating"
            /\ UNCHANGED start_time
       ELSE /\ nav_pc' = "update"
            /\ start_time' = nav_now
    /\ UNCHANGED <<navArgs, nav_now, calLocals, kinematics, attitude,
                   calibration, log, update_result, nav_ticks, notNav>>

\* Lines 433-437, up to the first sample of calibrate (lines 180-191).
NavStart ==
    /\ nav_pc = "start"
    /\ IF do_calibrate /\ ~calibrated /\ imu # "none"
       THEN /\ nav_pc' = "calibrating"
            /\ UNCHANGED start_time
       ELSE \* no calibration, or calibrate returned False: its result is dropped
            /\ nav_pc' = "update"
            /\ start_time' = nav_now
    /\ UNCHANGED <<navArgs, nav_now, calLocals, kinematics, attitude,
                   calibration, log, update_result, nav_ticks, notNav>>

\* Lines 193-201: one sample of calibrate and its sleep, the IMU giving an
\* acceleration of accels and an angular rate of gyros.
CalibrateSampleFrom(accels, gyros) ==
    /\ nav_pc = "calibrating"
    /\ cal_i < CalSamples
    /\ \E a \in accels, g \in gyros, m \in MagSamples :
         /\ accel_sum' = VAdd(accel_sum, a)
         /\ gyro_sum' = VAdd(gyro_sum, <<g[3], g[2], g[1]>>)
         /\ mag_sum' = mag_sum + Norm(m)
    /\ cal_i' = cal_i + 1
    /\ nav_now' = nav_now + CAL_DELAY
    /\ UNCHANGED <<nav_pc, navArgs, start_time, kinematics, attitude,
                   calibration, log, update_result, nav_ticks, notNav>>

CalibrateSample == CalibrateSampleFrom(AccelAtRest, GyroAtRest)

\* Lines 203-219 and 437.
CalibrateFinish ==
    /\ nav_pc = "calibrating"
    /\ cal_i >= CalSamples
    /\ accel_bias' = [i \in 1..3 |-> TruncDiv(accel_sum[i], CalSamples)]
    /\ gyro_bias' = [i \in 1..3 |-> TruncDiv(gyro_sum[i], CalSamples)]
    /\ mag_baseline' = TruncDiv(mag_sum, CalSamples)
    /\ calibrated' = TRUE
    /\ cal_i' = 0
    /\ accel_sum' = Zero3
    /\ gyro_sum' = Zero3
    /\ mag_sum' = 0
    /\ start_time' = nav_now
    /\ nav_pc' = "update"
    /\ UNCHANGED <<navArgs, nav_now, kinematics, attitude, log, update_result,
                   nav_ticks, notNav>>

\* Lines 440-451: update_position, whose result the loop drops, and the log,
\* the IMU giving an acceleration of accels and an angular rate of gyros.
UpdateTickFrom(accels, gyros) ==
    /\ nav_pc = "update"
    /\ nav_ticks < MaxNavTicks
    /\ nav_ticks' = nav_ticks + 1
    /\ IF imu = "none"
       THEN /\ update_result' = "False"
            /\ UNCHANGED <<kinematics, attitude>>
       ELSE \E a \in accels, g \in gyros :
              LET u == update_position(a, g, UPDATE_INTERVAL) IN
              /\ nav_pos' = u.pos
              /\ velocity' = u.velocity
              /\ accel_local' = u.accel_local
              /\ acceleration' = u.acceleration
              /\ orientation' = u.att.orientation
              /\ d_orientation' = u.att.d_orientation
              /\ a_orientation' = u.att.a_orientation
              /\ initialized' = u.att.initialized
              /\ update_result' = "True"
    /\ log' = IF log_state_enabled
              THEN Append(log, LogEntry(nav_now - start_time, nav_pos', velocity',
                                        acceleration', orientation'))
              ELSE log
    /\ nav_pc' = "sleep"
    /\ UNCHANGED <<navArgs, nav_now, start_time, calLocals, calibration,
                   notNav>>

UpdateTick == UpdateTickFrom(AccelSamples, GyroSamples)

\* Line 453.
NavSleep ==
    /\ nav_pc = "sleep"
    /\ nav_now' = nav_now + UPDATE_INTERVAL
    /\ nav_pc' = "update"
    /\ UNCHANGED <<navArgs, start_time, calLocals, kinematics, attitude,
                   calibration, log, update_result, nav_ticks, notNav>>

NextNav ==
    \/ NavStart
    \/ CalibrateSample
    \/ CalibrateFinish
    \/ UpdateTick
    \/ NavSleep

SpecNav == InitNav /\ [][NextNav]_vars

\* C28: in every update_position tick with an IMU the new position is
\* pos + v*dt + 0.5*a*dt^2 and the new velocity is v + a*dt, decayed when the
\* stored acceleration is below the threshold, with pos, v and a the values
\* stored before the tick: the sample read in the tick has no part in them and
\* changes only the acceleration, the local acceleration and the orientation
\* state, which the next tick integrates.
C28_TickIntegratesStoredState ==
    [][(nav_ticks' # nav_ticks /\ imu # "none")
          => /\ nav_pos' =
                   [i \in 1..3 |->
                      nav_pos[i] + TruncDiv(200 * velocity[i] * UPDATE_INTERVAL
                                            + acceleration[i] * UPDATE_INTERVAL
                                              * UPDATE_INTERVAL, 2000)]
             /\ velocity' =
                   [i \in 1..3 |->
                      IF Dot(acceleration, acceleration)
                           < ACCEL_THRESHOLD * ACCEL_THRESHOLD
                      THEN TruncDiv((velocity[i]
                                      + TruncDiv(acceleration[i] * UPDATE_INTERVAL,
                                                 100))
                                    * (1000 - VELOCITY_DECAY), 1000)
                      ELSE velocity[i]
                             + TruncDiv(acceleration[i] * UPDATE_INTERVAL, 100)]
             /\ UNCHANGED <<calibration, navArgs, calLocals, start_time, nav_now>>]_vars

\* C30: the first update_orientation call after construction stores the gyro
\* reading, less the bias when calibrated, as the angular velocity and leaves
\* orientation and angular acceleration as they were; every later call
\* advances the orientation by 0.5*a*dt^2 + w*dt with the a and w stored before
\* the call, then stores a = (w_new - w)/dt and w = w_new.
C30_OrientationIntegration ==
    [][(nav_ticks' # nav_ticks /\ imu # "none")
          => /\ \E g \in GyroSamples :
                  d_orientation' = IF calibrated
                                   THEN VSub(<<g[3], g[2], g[1]>>, gyro_bias)
                                   ELSE <<g[3], g[2], g[1]>>
             /\ initialized'
             /\ ~initialized
                  => /\ orientation' = orientation
                     /\ a_orientation' = a_orientation
             /\ initialized
                  => /\ orientation' =
                          [i \in 1..3 |->
                             orientation[i]
                               + TruncDiv(a_orientation[i] * UPDATE_INTERVAL
                                            * UPDATE_INTERVAL
                                          + 2000 * d_orientation[i]
                                            * UPDATE_INTERVAL, 2000000)]
                     /\ a_orientation' =
                          [i \in 1..3 |->
                             TruncDiv((d_orientation'[i] - d_orientation[i]) * 1000,
                                      UPDATE_INTERVAL)]]_vars

\* Three calls on a calibrated system with a gyro bias: the second advanced
\* the orientation by the rate of the first, and the third by the angular
\* acceleration of the second.
C30_Witness ==
    /\ nav_pc = "sleep"
    /\ nav_ticks = 3
    /\ calibrated
    /\ gyro_bias # Zero3
    /\ initialized
    /\ orientation # Zero3
    /\ a_orientation # Zero3
    /\ d_orientation # Zero3

\* C39: the norm of the stored acceleration is below accel_threshold only when
\* the acceleration is the zero vector, so a tick decays the velocity exactly
\* when the acceleration stored before it is zero.
C39_DecayOnlyAtZeroAcceleration ==
    /\ [](Dot(acceleration, acceleration) < ACCEL_THRESHOLD * ACCEL_THRESHOLD
            <=> acceleration = Zero3)
    /\ [][(nav_ticks' # nav_ticks /\ imu # "none")
            => velocity' =
                 IF acceleration = Zero3
                 THEN [i \in 1..3 |->
                         TruncDiv(velocity[i] * (1000 - VELOCITY_DECAY), 1000)]
                 ELSE [i \in 1..3 |->
                         velocity[i]
                           + TruncDiv(acceleration[i] * UPDATE_INTERVAL, 100)]]_vars

\* The third tick found a velocity and no acceleration, and decayed the
\* velocity; the acceleration it stored is not zero, so the next will not.
C39_Witness ==
    /\ nav_pc = "sleep"
    /\ nav_ticks = 3
    /\ velocity[1] = 1000 - VELOCITY_DECAY
    /\ acceleration # Zero3

\* C29: after every update_position tick each component of the stored global
\* acceleration is 0 or of magnitude at least accel_threshold, whether the
\* system was calibrated or not.
C29_AccelerationZeroOrOverThreshold ==
    nav_ticks > 0 =>
        \A i \in 1..3 :
            \/ acceleration[i] = 0
            \/ acceleration[i] >= ACCEL_THRESHOLD
            \/ acceleration[i] <= -ACCEL_THRESHOLD

\* A calibrated tick whose sample, less the bias, is below the threshold on an
\* axis and not zero.
C29_Witness ==
    /\ nav_pc = "sleep"
    /\ calibrated
    /\ accel_local[1] # 0
    /\ accel_local[1] < ACCEL_THRESHOLD
    /\ accel_local[1] > -ACCEL_THRESHOLD
    /\ acceleration[1] = 0

\* A tick has read a moving sample after a tick that read a still one: the
\* acceleration is stored, position and velocity are as they were.
C28_Witness ==
    /\ nav_pc = "sleep"
    /\ nav_ticks = 2
    /\ imu # "none"
    /\ acceleration # Zero3
    /\ accel_local # Zero3
    /\ velocity = Zero3
    /\ nav_pos = Zero3

\* What an earlier `await calibrate()` of the caller left in the Location3D
\* (lines 204-210), the robot at rest then.
EarlierCalibrations ==
    {[accel_bias |-> <<30, 0, GRAVITY>>, gyro_bias |-> <<0, 0, 100>>,
      mag_baseline |-> 50]}

\* run_continuous_update called on a Navigation3D with an IMU that is fresh, or
\* that the caller has calibrated before the call and not used otherwise.
InitRecal ==
    /\ LineIdle
    /\ RotIdle
    /\ CallIdle
    /\ TasksIdle
    /\ PairIdle
    /\ nav_now = 0
    /\ start_time = 0
    /\ cal_i = 0
    /\ accel_sum = Zero3
    /\ gyro_sum = Zero3
    /\ mag_sum = 0
    /\ nav_pos = Zero3
    /\ velocity = Zero3
    /\ acceleration = Zero3
    /\ accel_local = Zero3
    /\ orientation = Zero3
    /\ d_orientation = Zero3
    /\ a_orientation = Zero3
    /\ \/ /\ calibrated = FALSE
          /\ accel_bias = Zero3
          /\ gyro_bias = Zero3
          /\ mag_baseline = 0
       \/ /\ calibrated = TRUE
          /\ \E c \in EarlierCalibrations :
                /\ accel_bias = c.accel_bias
                /\ gyro_bias = c.gyro_bias
                /\ mag_baseline = c.mag_baseline
    /\ initialized = FALSE
    /\ log = <<>>
    /\ update_result = "none"
    /\ nav_ticks = 0
    /\ nav_pc = "start"
    /\ imu = "present"
    /\ do_calibrate \in BOOLEAN
    /\ log_state_enabled \in BOOLEAN

SpecRecal == InitRecal /\ [][NextNav]_vars

\* C31: accel_bias, gyro_bias, mag_baseline and calibrated change only where
\* calibrate stores them; the update ticks leave them as they are; calibrated
\* never goes back to FALSE; once calibrated, every sample has the stored bias
\* subtracted; and run_continuous_update enters calibrate only when
\* calibration is requested and the navigator is not calibrated yet.
C31_OnlyCalibrateWritesBias ==
    /\ [][calibration' # calibration
            => (nav_pc = "calibrating" /\ nav_pc' = "update" /\ calibrated')]_vars
    /\ [][nav_ticks' # nav_ticks => UNCHANGED calibration]_vars
    /\ [][calibrated => calibrated']_vars
    /\ [][(nav_ticks' # nav_ticks /\ calibrated)
            => \E a \in AccelSamples, g \in GyroSamples :
                  /\ accel_local' = VSub(a, accel_bias)
                  /\ d_orientation' = VSub(<<g[3], g[2], g[1]>>, gyro_bias)]_vars
    /\ [][(nav_pc = "start" /\ nav_pc' = "calibrating")
            => (do_calibrate /\ ~calibrated)]_vars

\* A navigator calibrated before the call, with calibration requested again,
\* has made two ticks on the bias it came with.
C31_Witness ==
    /\ nav_pc = "sleep"
    /\ nav_ticks = 2
    /\ do_calibrate
    /\ calibrated
    /\ \E c \in EarlierCalibrations :
          /\ accel_bias = c.accel_bias
          /\ gyro_bias = c.gyro_bias
    /\ \E a \in AccelSamples : accel_local = VSub(a, accel_bias)

\* ------------------------------------------------------------------------
\* The same loop on an IMU that does not move: every getAccel() gives the
\* same reading (gravity along one axis of the sensor) and every getGyro()
\* gives zero.
\* ------------------------------------------------------------------------

\* Readings of an IMU at rest, by the axis that points up.
StillAccels == {<<0, 0, GRAVITY>>, <<GRAVITY, 0, 0>>, <<0, 0 - GRAVITY, 0>>}

\* The position and orientation arguments of the constructor.
StartPositions == {Zero3, <<1000000, 0, 0>>}
StartOrientations == {Zero3, <<90, 0, 0>>, <<0, 90, 0>>, <<0, 0, 180>>}

\* The readings that repeat the ones calibrate has summed so far.
SameAsCalibration ==
    {a \in StillAccels : \A i \in 1..3 : a[i] * cal_i = accel_sum[i]}

InitStill ==
    /\ LineIdle
    /\ RotIdle
    /\ CallIdle
    /\ TasksIdle
    /\ PairIdle
    /\ \E p \in StartPositions, o \in StartOrientations : NavigationFreshAt(p, o)
    /\ nav_pc = "start"
    /\ imu = "present"
    /\ do_calibrate = TRUE
    /\ log_state_enabled \in BOOLEAN

StillCalibrateSample == CalibrateSampleFrom(SameAsCalibration, {Zero3})

StillTick ==
    /\ calibrated
    /\ UpdateTickFrom({accel_bias}, {Zero3})

NextStill ==
    \/ NavStart
    \/ StillCalibrateSample
    \/ CalibrateFinish
    \/ StillTick
    \/ NavSleep

SpecStill == InitStill /\ [][NextStill]_vars

SLOWDOWN_DISTANCE == 30
STOPPING_DISTANCE == 15
FORWARD_SPEED == 20
FORWARD_SPEED_SLOW == 10
DIST_ON_ERROR == 30

\* ultrasonic_sensor.getDist: a distance in cm, or <<>> when the read raises.
DistReads == {<<10>>, <<20>>, <<40>>, <<>>}

\* The awaits inside update_position (lines 283, 290, 308, 311).
TickAwaits == {"await_283", "await_290", "await_308", "await_311"}

\* Every await suspends the task (as with threads, or awaits on futures).
Yields_Always(p) == TRUE

\* Whether a task standing at p has given the event loop away: awaiting a
\* coroutine that itself never suspends (translate_vector, update_orientation,
\* rotate_vector) does not; asyncio.sleep does; a task not yet started has.
Yields(p) == p \notin TickAwaits

\* The pose the display reads.
Pose == <<nav_pos, orientation, velocity, acceleration>>

\* motion.start() and asyncio.run(main()) of navigation_display_test.py.
InitTasks ==
    /\ LineIdle
    /\ RotIdle
    /\ CallIdle
    /\ PairIdle
    /\ NavigationFresh
    /\ nav_pc = "start"
    /\ imu \in {"none", "present"}
    /\ do_calibrate = TRUE
    /\ log_state_enabled = TRUE
    /\ DisplayFresh
    /\ disp_pc = "start"
    /\ ring_pc = "start"
    /\ moving = TRUE
    /\ current_speed = FORWARD_SPEED
    /\ front_motor = <<"start", FORWARD_SPEED>>
    /\ ring_read = <<>>
    /\ motion_op = "none"
    /\ sent = <<>>
    /\ tick_state = <<Zero3, Zero3, Zero3, Zero3>>

notTasks == <<lineVars, rotVars, callVars, pairVars>>

\* Lines 440 and 270-283: the call, the IMU test, up to the first await.
TickBegin ==
    /\ nav_pc = "update"
    /\ nav_ticks < MaxNavTicks
    /\ IF imu = "none"
       THEN /\ update_result' = "False"
            /\ nav_ticks' = nav_ticks + 1
            /\ log' = IF log_state_enabled
                      THEN Append(log, LogEntry(nav_now - start_time, nav_pos,
                                                velocity, acceleration, orientation))
                      ELSE log
            /\ tick_state' = Pose
            /\ nav_pc' = "sleep"
       ELSE /\ nav_pc' = "await_283"
            /\ UNCHANGED <<update_result, nav_ticks, log, tick_state>>
    /\ UNCHANGED <<navArgs, nav_now, start_time, calLocals, kinematics, attitude,
                   calibration, displayVars, ringVars, notTasks>>

\* Lines 283-286: translate_vector returned; the position is stored.
TickPosition ==
    /\ nav_pc = "await_283"
    /\ nav_pos' = PositionStep(nav_pos, velocity, acceleration, UPDATE_INTERVAL)
    /\ nav_pc' = "await_290"
    /\ UNCHANGED <<navArgs, nav_now, start_time, calLocals, velocity, acceleration,
                   accel_local, attitude, calibration, log, update_result,
                   nav_ticks, taskVars, notTasks>>

\* Lines 290-305: the velocity is stored and decayed, the accelerometer read.
TickVelocity ==
    /\ nav_pc = "await_290"
    /\ velocity' = VelocityStep(velocity, acceleration, UPDATE_INTERVAL)
    /\ \E a \in AccelSamples : accel_local' = LocalAcceleration(a)
    /\ nav_pc' = "await_308"
    /\ UNCHANGED <<navArgs, nav_now, start_time, calLocals, nav_pos, acceleration,
                   attitude, calibration, log, update_result, nav_ticks,
                   taskVars, notTasks>>

\* Line 308: update_orientation.
TickOrientation ==
    /\ nav_pc = "await_308"
    /\ \E g \in GyroSamples :
         LET att == update_orientation(orientation, d_orientation, a_orientation,
                                       initialized, gyro_bias, calibrated, g,
                                       UPDATE_INTERVAL) IN
         /\ orientation' = att.orientation
         /\ d_orientation' = att.d_orientation
         /\ a_orientation' = att.a_orientation
         /\ initialized' = att.initialized
    /\ nav_pc' = "await_311"
    /\ UNCHANGED <<navArgs, nav_now, start_time, calLocals, kinematics,
                   calibration, log, update_result, nav_ticks, taskVars, notTasks>>

\* Lines 311-334 and 442-451: the acceleration is stored, the state logged.
TickAcceleration ==
    /\ nav_pc = "await_311"
    /\ acceleration' = GlobalAcceleration(accel_local, orientation)
    /\ update_result' = "True"
    /\ nav_ticks' = nav_ticks + 1
    /\ log' = IF log_state_enabled
              THEN Append(log, LogEntry(nav_now - start_time, nav_pos, velocity,
                                        acceleration', orientation))
              ELSE log
    /\ tick_state' = <<nav_pos, orientation, velocity, acceleration'>>
    /\ nav_pc' = "sleep"
    /\ UNCHANGED <<navArgs, nav_now, start_time, calLocals, nav_pos, velocity,
                   accel_local, attitude, calibration, displayVars, ringVars,
                   notTasks>>

\* update_from_navigator that also wraps the navigator's angles into
\* [0, 360) in place.
UpdateFromNavigator_WrapsAngles ==
    /\ disp_position' = nav_pos
    /\ disp_orientation' = [i \in 1..3 |-> orientation[i] % 360]
    /\ disp_velocity' = velocity
    /\ disp_acceleration' = acceleration
    /\ orientation' = [i \in 1..3 |-> orientation[i] % 360]
    /\ UNCHANGED <<kinematics, d_orientation, a_orientation, initialized,
                   calibration>>

\* update_from_navigator (lines 249-258): four reads, copied with tuple(),
\* with no await between them.
UpdateFromNavigator ==
    /\ disp_position' = nav_pos
    /\ disp_orientation' = orientation
    /\ disp_velocity' = velocity
    /\ disp_acceleration' = acceleration
    /\ UNCHANGED <<kinematics, attitude, calibration>>

\* What a display step leaves alone besides the Location3D fields.
DisplayFrame ==
    UNCHANGED <<nav_pc, navArgs, nav_now, start_time, calLocals, log,
                update_result, nav_ticks, ringVars, tick_state, notTasks>>

\* run_continuous, lines 332-344: start(), the first pass of the loop.
DisplayStart ==
    /\ disp_pc = "start"
    /\ Yields(nav_pc)
    /\ disp_running' = TRUE
    /\ UpdateFromNavigator
    /\ disp_pc' = "sleep"
    /\ DisplayFrame

\* Lines 336-344: the sleep is over, self.running holds, one more pass.
DisplayIteration ==
    /\ disp_pc = "sleep"
    /\ Yields(nav_pc)
    /\ disp_running
    /\ UpdateFromNavigator
    /\ UNCHANGED <<disp_pc, disp_running>>
    /\ DisplayFrame

\* Lines 338-349: a pass in which process_events raises tk.TclError (the
\* window was closed); the snapshot was taken before.
DisplayWindowClosed ==
    /\ disp_pc = "sleep"
    /\ Yields(nav_pc)
    /\ disp_running
    /\ UpdateFromNavigator
    /\ disp_running' = FALSE
    /\ disp_pc' = "done"
    /\ DisplayFrame

\* start_safety_ring, lines 39-71: one pass of the loop, up to its sleep.
SafetyRingIteration ==
    /\ ring_pc \in {"start", "sleep"}
    /\ Yields(nav_pc)
    /\ \E r \in DistReads :
         LET dist == IF Len(r) = 0 THEN DIST_ON_ERROR ELSE r[1] IN
         IF dist < STOPPING_DISTANCE
         THEN IF moving
              THEN /\ front_motor' = <<"stop">>
                   /\ moving' = FALSE
                   /\ UNCHANGED current_speed
              ELSE UNCHANGED <<front_motor, moving, current_speed>>
         ELSE IF dist < SLOWDOWN_DISTANCE
         THEN IF (moving /\ current_speed # FORWARD_SPEED_SLOW) \/ ~moving
              THEN /\ front_motor' = <<"start", FORWARD_SPEED_SLOW>>
                   /\ moving' = TRUE
                   /\ current_speed' = FORWARD_SPEED_SLOW
              ELSE UNCHANGED <<front_motor, moving, current_speed>>
         ELSE IF ~moving \/ current_speed # FORWARD_SPEED
              THEN /\ front_motor' = <<"start", FORWARD_SPEED>>
                   /\ moving' = TRUE
                   /\ current_speed' = FORWARD_SPEED
              ELSE UNCHANGED <<front_motor, moving, current_speed>>
    /\ ring_pc' = "sleep"
    /\ UNCHANGED <<navVars, displayVars, tick_state, notTasks, ringLog>>

NextTasks ==
    \/ NavStart
    \/ CalibrateSample
    \/ CalibrateFinish
    \/ TickBegin
    \/ TickPosition
    \/ TickVelocity
    \/ TickOrientation
    \/ TickAcceleration
    \/ NavSleep
    \/ DisplayStart
    \/ DisplayIteration
    \/ DisplayWindowClosed
    \/ SafetyRingIteration

SpecTasks == InitTasks /\ [][NextTasks]_vars

\* ------------------------------------------------------------------------
\* MotionController (src/systems/mobility_system.py) on its own: start(),
\* stop(), run_with_safety() and the passes of start_safety_ring, in any order
\* the callers and the event loop allow
\* ------------------------------------------------------------------------

\* The speeds start() is called with: none (forward_speed), and four others.
StartSpeeds == {FORWARD_SPEED, FORWARD_SPEED_SLOW, 5, 35, 50}

\* What getDist gives a pass: the readings of DistReads and the two
\* thresholds themselves.
RingReads == DistReads \cup {<<STOPPING_DISTANCE>>, <<SLOWDOWN_DISTANCE>>}

\* A failed read taken for an obstacle at the sensor.
RingDistance_FailNear(r) == IF Len(r) = 0 THEN 0 ELSE r[1]

\* Lines 40-43: the distance of a pass, 30.0 when the read fails.
RingDistance(r) == IF Len(r) = 0 THEN DIST_ON_ERROR ELSE r[1]

\* A pass that leaves a stopped motor stopped.
RingCommand_Sticky(d, mv, spd) ==
    IF ~mv THEN <<>>
    ELSE IF d < STOPPING_DISTANCE THEN <<"stop">>
    ELSE IF d < SLOWDOWN_DISTANCE
    THEN IF spd # FORWARD_SPEED_SLOW THEN <<"start", FORWARD_SPEED_SLOW>> ELSE <<>>
    ELSE IF spd # FORWARD_SPEED THEN <<"start", FORWARD_SPEED>> ELSE <<>>

\* A pass that sends the command of its band every time.
RingCommand_Resend(d, mv, spd) ==
    IF d < STOPPING_DISTANCE THEN <<"stop">>
    ELSE IF d < SLOWDOWN_DISTANCE THEN <<"start", FORWARD_SPEED_SLOW>>
    ELSE <<"start", FORWARD_SPEED>>

\* Lines 45-69: the command a pass sends to front_motor for the distance d,
\* with moving = mv and current_speed = spd; <<>> when it sends none.
RingCommand(d, mv, spd) ==
    IF d < STOPPING_DISTANCE
    THEN IF mv THEN <<"stop">> ELSE <<>>
    ELSE IF d < SLOWDOWN_DISTANCE
    THEN IF mv /\ spd # FORWARD_SPEED_SLOW THEN <<"start", FORWARD_SPEED_SLOW>>
         ELSE IF ~mv THEN <<"start", FORWARD_SPEED_SLOW>>
         ELSE <<>>
    ELSE IF ~mv THEN <<"start", FORWARD_SPEED>>
         ELSE IF spd # FORWARD_SPEED THEN <<"start", FORWARD_SPEED>>
         ELSE <<>>

\* MotionController(), lines 6-24: no command has gone to a motor.
InitMotion ==
    /\ LineIdle
    /\ RotIdle
    /\ NavIdle
    /\ CallIdle
    /\ PairIdle
    /\ DisplayFresh
    /\ disp_pc = "idle"
    /\ tick_state = <<Zero3, Zero3, Zero3, Zero3>>
    /\ ring_pc = "idle"
    /\ moving = TRUE
    /\ current_speed = FORWARD_SPEED
    /\ front_motor = <<>>
    /\ ring_read = <<>>
    /\ motion_op = "none"
    /\ sent = <<>>

MotionFrame ==
    UNCHANGED <<lineVars, rotVars, navVars, callVars, pairVars, displayVars,
                tick_state>>

\* Lines 26-31: start(speed), speed = forward_speed when none is given.
MotionStart ==
    /\ \E speed \in StartSpeeds :
         /\ front_motor' = <<"start", speed>>
         /\ current_speed' = speed
         /\ sent' = << <<"front_motor", "start", speed>> >>
    /\ moving' = TRUE
    /\ motion_op' = "start"
    /\ UNCHANGED <<ring_pc, ring_read>>
    /\ MotionFrame

\* Lines 33-36: stop().
MotionStop ==
    /\ front_motor' = <<"stop">>
    /\ moving' = FALSE
    /\ sent' = << <<"front_motor", "stop">>, <<"turn_motor", "stop">> >>
    /\ motion_op' = "stop"
    /\ UNCHANGED <<ring_pc, ring_read, current_speed>>
    /\ MotionFrame

\* Lines 73-76: run_with_safety() up to the first pass of the ring.
RunWithSafety ==
    /\ ring_pc = "idle"
    /\ front_motor' = <<"start", FORWARD_SPEED>>
    /\ sent' = << <<"front_motor", "start", FORWARD_SPEED>> >>
    /\ motion_op' = "run_with_safety"
    /\ ring_pc' = "start"
    /\ UNCHANGED <<moving, current_speed, ring_read>>
    /\ MotionFrame

\* Lines 39-71: one pass of start_safety_ring, up to its sleep; the first
\* pass of a ring that was started without run_with_safety included.
RingIteration ==
    /\ \E r \in RingReads :
         LET cmd == RingCommand(RingDistance(r), moving, current_speed) IN
         /\ ring_read' = r
         /\ front_motor' = IF cmd = <<>> THEN front_motor ELSE cmd
         /\ moving' = IF cmd = <<>> THEN moving ELSE cmd[1] = "start"
         /\ current_speed' = IF Len(cmd) = 2 THEN cmd[2] ELSE current_speed
         /\ sent' = IF cmd = <<>> THEN <<>> ELSE << <<"front_motor">> \o cmd >>
    /\ motion_op' = "ring"
    /\ ring_pc' = "sleep"
    /\ MotionFrame

NextMotion ==
    \/ MotionStart
    \/ MotionStop
    \/ RunWithSafety
    \/ RingIteration

SpecMotion == InitMotion /\ [][NextMotion]_vars

\* The band of a distance: 1 below stopping_distance, 2 below
\* slowdown_distance, 3 clear.
Band(d) ==
    IF d < STOPPING_DISTANCE THEN 1 ELSE IF d < SLOWDOWN_DISTANCE THEN 2 ELSE 3

\* C33 (as claimed): after a ring pass that read a distance below
\* stopping_distance, the last command to the front motor is stop and moving
\* is FALSE, whatever start(), stop(), run_with_safety() and passes came before.
C33_ObstacleStopsMotor ==
    (motion_op = "ring" /\ RingDistance(ring_read) < STOPPING_DISTANCE)
        => (front_motor = <<"stop">> /\ ~moving)

\* C34 (as claimed): from construction on, moving is TRUE exactly when the
\* last command to the front motor was a start, and then current_speed is the
\* speed of that start.
C34_FlagsMatchMotor ==
    /\ moving <=> (Len(front_motor) = 2 /\ front_motor[1] = "start")
    /\ moving => (Len(front_motor) = 2 /\ current_speed = front_motor[2])

\* C35: a ring pass whose ultrasonic read fails does what a pass reading 30.0
\* does with the default thresholds: it takes the path-clear branch, sends
\* neither a stop nor the slow speed, starts a stopped motor at forward_speed,
\* and is silent when the motor already runs at forward_speed.
C35_FailedReadIsClear ==
    [][(motion_op' = "ring" /\ ring_read' = <<>>)
          => IF moving /\ current_speed = FORWARD_SPEED
             THEN /\ sent' = <<>>
                  /\ UNCHANGED <<moving, current_speed, front_motor>>
             ELSE /\ sent' = << <<"front_motor", "start", FORWARD_SPEED>> >>
                  /\ front_motor' = <<"start", FORWARD_SPEED>>
                  /\ moving'
                  /\ current_speed' = FORWARD_SPEED]_vars

\* A pass whose read failed has started the motor at forward_speed.
C35_Witness ==
    /\ ring_pc = "sleep"
    /\ motion_op = "ring"
    /\ ring_read = <<>>
    /\ sent = << <<"front_motor", "start", FORWARD_SPEED>> >>
    /\ moving
    /\ current_speed = FORWARD_SPEED

\* C36: stop() does not hold against the ring: the pass that follows it, when
\* it reads a distance of stopping_distance or more, starts the front motor
\* again, at forward_speed_slow below slowdown_distance and at forward_speed
\* otherwise, and sets moving.
C36_StopIsNotSticky ==
    [][(motion_op = "stop" /\ motion_op' = "ring"
          /\ RingDistance(ring_read') >= STOPPING_DISTANCE)
          => /\ front_motor' =
                  <<"start", IF RingDistance(ring_read') < SLOWDOWN_DISTANCE
                             THEN FORWARD_SPEED_SLOW ELSE FORWARD_SPEED>>
             /\ sent' = << <<"front_motor">> \o front_motor' >>
             /\ moving'
             /\ current_speed' = front_motor'[2]]_vars

\* A pass in the slow-down band has started the motor at the slow speed.
C36_Witness ==
    /\ ring_pc = "sleep"
    /\ motion_op = "ring"
    /\ ring_read = <<20>>
    /\ sent = << <<"front_motor", "start", FORWARD_SPEED_SLOW>> >>
    /\ moving
    /\ front_motor = <<"start", FORWARD_SPEED_SLOW>>

\* C37: a ring pass sends a command only when it changes moving or
\* current_speed; the second of two passes in a row that read distances of
\* the same band sends nothing and changes nothing; and no pass sends a
\* command to the turn motor.
C37_RingCommandsOnChange ==
    /\ [][(motion_op = "ring" /\ motion_op' = "ring"
            /\ Band(RingDistance(ring_read)) = Band(RingDistance(ring_read')))
            => /\ sent' = <<>>
               /\ UNCHANGED <<moving, current_speed, front_motor>>]_vars
    /\ [][(motion_op' = "ring" /\ sent' # <<>>)
            => (moving' # moving \/ current_speed' # current_speed)]_vars
    /\ [][motion_op' = "ring"
            => \A i \in 1..Len(sent') : sent'[i][1] = "front_motor"]_vars

\* A pass below stopping_distance that found the motor stopped and sent
\* nothing.
C37_Witness ==
    /\ ring_pc = "sleep"
    /\ motion_op = "ring"
    /\ ring_read = <<10>>
    /\ sent = <<>>
    /\ ~moving
    /\ front_motor = <<"stop">>

\* ------------------------------------------------------------------------
\* Part 5  src/poc/poc_example.py : single methods of Navigator, called
\* directly on a Navigator that runs no follow_line
\* ------------------------------------------------------------------------

\* At most MaxCalls calls are made on one Navigator.
MaxCalls == 3

\* A fresh Navigator and no call yet.
InitCalls ==
    /\ LineIdle
    /\ RotIdle
    /\ NavIdle
    /\ CallIdle
    /\ TasksIdle
    /\ PairIdle

\* What a direct call leaves alone besides the Navigator fields it names.
CallFrame(changed) ==
    /\ calls' = calls + 1
    /\ UNCHANGED <<pc, now, params, last_time, locals, last_encoder_read, wheels,
                   result, sensor_absent, ticks, gaps, arLocals, arHistory,
                   reads, classification>>
    /\ UNCHANGED <<rotVars, navVars, taskVars, pairVars>>
    /\ IF "pid" \in changed THEN TRUE ELSE UNCHANGED pidState
    /\ IF "window" \in changed THEN TRUE ELSE UNCHANGED windowState

\* pid_steer(error, dt): lateral errors up to ten sensor positions, and a dt
\* that is negative, zero, one millisecond or one period.
Errors == {-10000, -2000, 0, 1000, 2000, 10000}
Dts == {-40, 0, 1, 40}

PidSteerCall ==
    /\ calls < MaxCalls
    /\ \E error \in Errors, d \in Dts :
         LET s == pid_steer(integral, prev_error, error, d) IN
         /\ integral' = s.integral
         /\ prev_error' = s.prev_error
         /\ args' = <<error, d>>
         /\ ret' = s.omega
    /\ called' = "pid_steer"
    /\ CallFrame({"pid"})

NextPid == PidSteerCall

SpecPid == InitCalls /\ [][NextPid]_vars

\* omega_to_wheel_speeds(v_cm_s, omega): speeds and angular rates inside, at
\* and far beyond the limits, of both signs.
WheelVs == {-1000000, -100000, -25000, -15000, 0, 15000, 24000, 25000,
            100000, 1000000}
WheelOmegas == {-1000000, -100000, -4921, -1000, -1, 0, 1000, 4921, 100000,
                1000000}

WheelSpeedsCall ==
    /\ calls < MaxCalls
    /\ \E v \in WheelVs, omega \in WheelOmegas :
         /\ args' = <<v, omega>>
         /\ ret' = omega_to_wheel_speeds(v, omega)
    /\ called' = "omega_to_wheel_speeds"
    /\ CallFrame({})

NextMixer == WheelSpeedsCall

SpecMixer == InitCalls /\ [][NextMixer]_vars

\* sensor_reading_to_position(sensor_vals): every frame whose elements are
\* dark-free, just below, exactly at or far above the threshold, and every
\* frame with one lit element of any of five intensities.
FrameValues == {0, 49, 50, 100}
Intensities == {50, 51, 75, 99, 100}
OneLit(p, w) == [i \in 1..NUM_SENSORS |-> IF i = p THEN w ELSE 0]
EstimatorFrames ==
    [1..NUM_SENSORS -> FrameValues]
        \cup {OneLit(p, w) : p \in 1..NUM_SENSORS, w \in Intensities}

SensorPositionCall ==
    /\ calls < MaxCalls
    /\ \E f \in EstimatorFrames :
         /\ args' = f
         /\ ret' = sensor_reading_to_position(f)
    /\ called' = "sensor_reading_to_position"
    /\ CallFrame({})

NextEstimator == SensorPositionCall

SpecEstimator == InitCalls /\ [][NextEstimator]_vars

\* update_line_window(sees_line, distance_increment) on a Navigator that has
\* taken samples before: none, or enough to leave the window two short of
\* full, one short, or full; the line was seen at every sample, every second
\* or every third one.
WindowPeriods == 1..3
PriorLengths == {LINE_WINDOW_SAMPLES - LINE_WINDOW_SAMPLES, LINE_WINDOW_SAMPLES - 2,
                 LINE_WINDOW_SAMPLES - 1, LINE_WINDOW_SAMPLES}
PriorWindows ==
    {[i \in 1..n |-> IF i % period = 0 THEN 1 ELSE 0] :
        n \in PriorLengths, period \in WindowPeriods}
DistanceIncrements == {0, 600}

InitWindow ==
    /\ \E w \in PriorWindows : NavigatorWith(w, Len(w) * 600)
    /\ pc = "idle"
    /\ desired_speed_cm_s = 0
    /\ run_time_s = 0
    /\ encoder_kind = "unsupported"
    /\ RotIdle
    /\ NavIdle
    /\ CallIdle
    /\ TasksIdle
    /\ PairIdle

UpdateLineWindowCall ==
    /\ calls < MaxCalls
    /\ \E sees \in BOOLEAN, distance_increment \in DistanceIncrements :
         /\ line_presence_window' =
               WindowAppend(line_presence_window, IF sees THEN 1 ELSE 0)
         /\ distance_since_window_start' =
               distance_since_window_start + distance_increment
         /\ args' = <<sees, distance_increment>>
    /\ ret' = <<>>
    /\ called' = "update_line_window"
    /\ CallFrame({"window"})

NextWindow == UpdateLineWindowCall

SpecWindow == InitWindow /\ [][NextWindow]_vars

\* classify_line_type() on a Navigator whose window holds n samples, the line
\* seen at the first k of them, for every n up to the capacity.
ClassifyWindows ==
    {[i \in 1..n |-> IF i <= k THEN 1 ELSE 0] :
        n \in 0..LINE_WINDOW_SAMPLES, k \in 0..LINE_WINDOW_SAMPLES}

InitClassify ==
    /\ \E w \in ClassifyWindows : NavigatorWith(w, Len(w) * 600)
    /\ pc = "idle"
    /\ desired_speed_cm_s = 0
    /\ run_time_s = 0
    /\ encoder_kind = "unsupported"
    /\ RotIdle
    /\ NavIdle
    /\ CallIdle
    /\ TasksIdle
    /\ PairIdle

ClassifyLineTypeCall ==
    /\ calls < MaxCalls
    /\ args' = <<>>
    /\ ret' = classify_line_type(line_presence_window)
    /\ called' = "classify_line_type"
    /\ CallFrame({})

NextClassify == ClassifyLineTypeCall

SpecClassify == InitClassify /\ [][NextClassify]_vars

\* C21: classify_line_type returns "unknown" for an empty window; for any
\* other window, with r the detections over the samples, it returns
\* "continuous" iff r > 0.85 (17/20), "mostly broken" iff r < 0.4 (2/5) and
\* "dotted/broken" in between, both ends included.  It changes no state.
C21_ClassifiesByRatio ==
    /\ [](called = "classify_line_type" =>
            LET w == line_presence_window
                samples == Len(w)
                detections == Cardinality({i \in 1..Len(w) : w[i] = 1})
            IN  /\ (ret = "unknown") <=> (samples = 0)
                /\ (ret = "continuous")
                      <=> (samples > 0 /\ 20 * detections > 17 * samples)
                /\ (ret = "mostly broken")
                      <=> (samples > 0 /\ 5 * detections < 2 * samples)
                /\ (ret = "dotted/broken")
                      <=> (samples > 0 /\ 2 * samples <= 5 * detections
                                       /\ 20 * detections <= 17 * samples))
    /\ [][called' = "classify_line_type"
            => UNCHANGED <<pidState, windowState, last_encoder_read, wheels>>]_vars

C21_Witness ==
    /\ called = "classify_line_type"
    /\ Len(line_presence_window) = 20
    /\ SumSeq(line_presence_window) = 17
    /\ ret = "dotted/broken"

\* C20: line_presence_window never holds more than LINE_WINDOW_SAMPLES
\* entries; an append to a full window drops the oldest entry and nothing
\* else, and the entries kept stay in their order, the new one last.
C20_WindowBounded ==
    /\ [](Len(line_presence_window) <= LINE_WINDOW_SAMPLES)
    /\ [][called' = "update_line_window"
            => LET w == line_presence_window
                   b == IF args'[1] THEN 1 ELSE 0
               IN  line_presence_window' =
                      IF Len(w) = LINE_WINDOW_SAMPLES
                      THEN [i \in 1..LINE_WINDOW_SAMPLES |->
                               IF i < LINE_WINDOW_SAMPLES THEN w[i + 1] ELSE b]
                      ELSE [i \in 1..(Len(w) + 1) |->
                               IF i <= Len(w) THEN w[i] ELSE b]]_vars

C20_Witness ==
    /\ called = "update_line_window"
    /\ calls = MaxCalls
    /\ Len(line_presence_window) = LINE_WINDOW_SAMPLES
    /\ line_presence_window[LINE_WINDOW_SAMPLES - 1] = 0
    /\ line_presence_window[LINE_WINDOW_SAMPLES] = 1
    /\ line_presence_window[1] = 1
    /\ distance_since_window_start > LINE_WINDOW_SAMPLES * 600

\* ------------------------------------------------------------------------
\* Specifications of Part 1
\* ------------------------------------------------------------------------

Next ==
    \/ FollowLineStart
    \/ TickSleep
    \/ ReadSensors
    \/ ReadEncoders
    \/ Track
    \/ StopOnExpiry
    \/ FollowLineRecoveryFailed
    \/ FollowLineReacquired
    \/ ReacquireEnter
    \/ DeadReckonDrive
    \/ DeadReckonRead
    \/ DeadReckonEncoders
    \/ StopForward
    \/ SweepPulse
    \/ SweepStop
    \/ SweepRead
    \/ WigglePulse
    \/ WiggleStop
    \/ WiggleRead

Spec == Init /\ [][Next]_vars

\* ------------------------------------------------------------------------
\* Two follow_line calls with the same arguments, on Navigators that are
\* alike but for line_presence_window and distance_since_window_start, the
\* clock and the drivers giving the second call what they gave the first.
\* ------------------------------------------------------------------------

\* The windows of the two Navigators are one sample short of full.
PairWindows == {w \in PriorWindows : Len(w) = LINE_WINDOW_SAMPLES - 1}

\* The first call starts with the line seen at every sample of the window,
\* the second with the line seen at every third.
FirstWindows == {w \in PairWindows : Len(w) > 0 /\ SumSeq(w) = Len(w)}
SecondWindows == {w \in PairWindows : Len(w) > 0 /\ SumSeq(w) * 3 = Len(w)}

IsPrefix(a, b) == Len(a) <= Len(b) /\ a = SubSeq(b, 1, Len(a))

InitPair ==
    /\ \E w \in FirstWindows : NavigatorWith(w, Len(w) * 600)
    /\ desired_speed_cm_s = 15000
    /\ encoder_kind = "cm"
    /\ run_time_s = 100
    /\ pc = "start"
    /\ RotIdle
    /\ NavIdle
    /\ CallIdle
    /\ TasksIdle
    /\ run = 1
    /\ tape = <<>>
    /\ outs1 = <<>>
    /\ result1 = "none"
    /\ classification1 = "unset"

\* The same values on the Navigator of the next call, at a clock set back.
NavigatorAgain(window, window_distance) ==
    /\ now' = 0
    /\ t_start' = 0
    /\ last_time' = 0
    /\ dt' = 0
    /\ sees_line' = FALSE
    /\ pos' = 0
    /\ integral' = 0
    /\ prev_error' = 0
    /\ line_presence_window' = window
    /\ distance_since_window_start' = window_distance
    /\ last_encoder_read' = <<0, 0>>
    /\ motor' = <<>>
    /\ motor_by' = "none"
    /\ outs' = <<>>
    /\ reads' = <<>>
    /\ classification' = "unset"
    /\ result' = "running"
    /\ sensor_absent' = FALSE
    /\ ticks' = 0
    /\ gaps' = 0
    /\ t0' = 0
    /\ t_dead_start' = 0
    /\ dist_travelled' = 0
    /\ sweep_start_time' = 0
    /\ idx' = 0
    /\ wiggle_i' = 0
    /\ arSawOther' = FALSE
    /\ arUnavail' = FALSE
    /\ arReadsAfter' = 0
    /\ arPulsesAfter' = 0

\* The drivers have so far given the second call what they gave the first.
Replaying == run = 1 \/ IsPrefix(reads, tape)

\* The driver that is asked next gives the second call what it gave the
\* first, when the first call asked that driver at that point.
SameReturn ==
    LET n == Len(reads') IN
    (run = 2 /\ reads' # reads /\ n <= Len(tape) /\ reads'[n][1] = tape[n][1])
       => reads'[n] = tape[n]

\* The frames the sensor array gives to the compared calls.
PairFrames == {Blank, Centered}

\* A step of a compared call.
PairStep ==
    /\ Replaying
    /\ Next
    /\ SameReturn
    /\ (reads' # reads /\ reads'[Len(reads')][1] = "read_line_sensors")
          => reads'[Len(reads')][3] \in PairFrames \cup {<<>>}

\* The first call has returned or raised; the second call is made.
SecondCall ==
    /\ run = 1
    /\ pc = "done"
    /\ run' = 2
    /\ tape' = reads
    /\ outs1' = outs
    /\ result1' = result
    /\ classification1' = classification
    /\ \E w \in SecondWindows : NavigatorAgain(w, Len(w) * 600)
    /\ pc' = "start"
    /\ UNCHANGED <<desired_speed_cm_s, run_time_s, encoder_kind>>
    /\ UNCHANGED <<rotVars, navVars, callVars, taskVars>>

NextPair ==
    \/ PairStep
    \/ SecondCall

SpecPair == InitPair /\ [][NextPair]_vars

\* C19: what line_presence_window holds has no influence on control.  Of two
\* follow_line calls that differ in the window they start with, the second
\* asks the drivers for the same reads in the same order, gives the same
\* motor commands and returns the same value as the first, as long as the
\* drivers return the same values.
C19_WindowHasNoInfluence ==
    run = 2 =>
       /\ Len(reads) <= Len(tape)
       /\ reads # <<>> => reads[Len(reads)][1] = tape[Len(reads)][1]
       /\ IsPrefix(reads, tape) =>
             /\ IsPrefix(outs, outs1)
             /\ pc = "done" => /\ reads = tape
                               /\ outs = outs1
                               /\ result = result1

C19_Witness ==
    /\ run = 2
    /\ pc = "done"
    /\ reads = tape
    /\ result = "True"
    /\ Len(outs) > 2
    /\ classification = "mostly broken"
    /\ classification1 = "continuous"
    /\ Len(line_presence_window) = LINE_WINDOW_SAMPLES

\* The phase of attempt_reacquire a position belongs to: 1 dead-reckon,
\* 2 the stop of line 341, 3 sweep, 4 wiggle, 5 the call is over.
PhaseOf(p) ==
    CASE p \in {"ar_enter", "dr_loop", "dr_read", "dr_enc"} -> 1
      [] p = "ar_stop" -> 2
      [] p \in {"sw_loop", "sw_stop", "sw_read"} -> 3
      [] p \in {"wg_loop", "wg_stop", "wg_read"} -> 4
      [] OTHER -> 5

\* C23: attempt_reacquire goes through dead-reckon, sweep and wiggle in that
\* order and never back; between the last dead-reckon drive command and the
\* first sweep pulse the motors are commanded to zero; a sample that shows
\* the line ends the call with True in the phase it was taken in.
C23_PhasesInOrder ==
    /\ [][PhaseOf(pc') >= PhaseOf(pc)]_vars
    /\ [][(PhaseOf(pc) = 1 /\ PhaseOf(pc') \in {2, 3, 4}) => pc' = "ar_stop"]_vars
    /\ [][(PhaseOf(pc) = 3 /\ PhaseOf(pc') = 4)
            => (pc' = "wg_loop" /\ wiggle_i' = 0)]_vars
    /\ [][PhaseOf(pc) = 5 => pc' = pc]_vars
    /\ []((pc = "sw_loop" /\ idx = 1)
            => (motor = stop_motors /\ motor_by = "attempt_reacquire"))
    /\ []((arSawOther /\ ~arUnavail /\ pc # "done") <=> pc = "ar_ok")

C23_Witness ==
    /\ pc = "ar_ok"
    /\ wiggle_i = 2
    /\ ~arUnavail
    /\ motor = stop_motors

\* C24: every dead-reckon drive command sets both wheels to 0.4 x base_speed;
\* a drive step starts only while the time spent in the phase is below
\* min(0.6 * GAP_MAX_REACQUIRE_TIME, 0.6 s) and the distance travelled is
\* below REACQUIRE_MAX_DISTANCE_CM; every drive step is followed by a sample
\* of the sensor, and nothing else in the phase commands the motors.
C24_DeadReckonBudget ==
    /\ [][(PhaseOf(pc) = 1 /\ (motor' # motor \/ motor_by' # motor_by \/ now' # now))
            => /\ pc = "dr_loop"
               /\ pc' = "dr_read"
               /\ motor' = <<(desired_speed_cm_s * 4) \div 10,
                             (desired_speed_cm_s * 4) \div 10>>
               /\ now - t_dead_start < (GAP_MAX_REACQUIRE_TIME * 6) \div 10
               /\ now - t_dead_start < 600
               /\ dist_travelled < REACQUIRE_MAX_DISTANCE_CM]_vars
    /\ [][(pc = "dr_loop" /\ pc' # pc)
            => \/ pc' = "dr_read"
               \/ /\ pc' = "ar_stop"
                  /\ \/ now - t_dead_start >= (GAP_MAX_REACQUIRE_TIME * 6) \div 10
                     \/ now - t_dead_start >= 600
                     \/ dist_travelled >= REACQUIRE_MAX_DISTANCE_CM]_vars
    /\ [][(pc = "dr_read" /\ pc' # pc)
            => /\ pc' \in {"dr_enc", "ar_ok", "ar_stop", "done"}
               /\ arSawOther' = (pc' # "dr_enc")
               /\ UNCHANGED <<motor, now>>]_vars

C24_Witness ==
    /\ pc = "ar_stop"
    /\ now - t_dead_start = DEAD_RECKON_TIMEOUT
    /\ dist_travelled > 0
    /\ dist_travelled < REACQUIRE_MAX_DISTANCE_CM
    /\ motor = <<6000, 6000>>
    /\ ~arSawOther

\* C25: in the sweep and in the wiggle every pulse is followed by a stop
\* command before the sensor is read, so that every sample is taken with the
\* wheels commanded to zero; a sweep pulse is a pure rotation (left speed =
\* - right speed); the wiggle gives at most 3 pulses, each one forward.
C25_SamplesAtStandstill ==
    /\ [](pc \in {"sw_read", "wg_read"}
            => (motor = stop_motors /\ motor_by = "attempt_reacquire"))
    /\ [][(pc = "sw_loop" /\ pc' # pc /\ PhaseOf(pc') = 3)
            => (pc' = "sw_stop" /\ motor'[1] = -motor'[2])]_vars
    /\ [][(pc = "sw_stop" /\ pc' # pc)
            => (pc' = "sw_read" /\ motor' = stop_motors)]_vars
    /\ [][(pc = "wg_loop" /\ pc' # pc /\ PhaseOf(pc') = 4)
            => /\ pc' = "wg_stop"
               /\ wiggle_i < 3
               /\ motor'[1] = motor'[2]
               /\ motor'[1] > 0]_vars
    /\ [][(pc = "wg_stop" /\ pc' # pc)
            => (pc' = "wg_read" /\ motor' = stop_motors)]_vars
    /\ [][(pc = "wg_read" /\ pc' = "wg_loop") => wiggle_i' = wiggle_i + 1]_vars
    /\ [][(pc \in {"sw_read", "wg_read"}) => motor' = motor]_vars

C25_Witness ==
    /\ pc = "wg_read"
    /\ wiggle_i = 2
    /\ motor = stop_motors
    /\ motor_by = "attempt_reacquire"
    /\ ~arSawOther

\* C27: integral and prev_error are 0 at construction and are changed by
\* pid_steer alone: every change is the update integral += error * dt,
\* prev_error = error of the tracking step, whatever classify_line_type does
\* in that step; attempt_reacquire, the resumption after it and
\* update_line_window leave both as they were.
C27_OnlyPidSteerWritesPidState ==
    /\ [](pc = "start" => (integral = 0 /\ prev_error = 0))
    /\ [][(integral' # integral \/ prev_error' # prev_error)
            => /\ pc = "track"
               /\ integral' = integral + pos * dt
               /\ prev_error' = pos]_vars
    /\ [][(PhaseOf(pc) < 5 \/ pc \in {"ar_ok", "ar_failed", "encoders"})
            => UNCHANGED <<integral, prev_error>>]_vars

C27_Witness ==
    /\ pc = "loop"
    /\ motor_by = "attempt_reacquire"
    /\ gaps > 0
    /\ integral # 0
    /\ prev_error # 0

\* C32: with read_encoders unsupported, every call of it raising, follow_line
\* and the dead-reckon phase go on: the baseline is skipped, the tick's
\* distance increment is desired_speed * dt, a dead-reckon step adds the
\* dead-reckon speed times 0.05 s, _last_encoder_read stays as constructed, and
\* the tick continues with tracking, recovery or the next dead-reckon test.
C32_EncoderFallback ==
    /\ [](encoder_kind = "unsupported" => last_encoder_read = <<0, 0>>)
    /\ [][(encoder_kind = "unsupported" /\ pc = "start")
            => (pc' = "loop" /\ result' = result)]_vars
    /\ [][(encoder_kind = "unsupported" /\ pc = "encoders")
            => /\ distance_since_window_start' =
                    distance_since_window_start
                      + TruncDiv(desired_speed_cm_s * dt, 1000)
               /\ pc' = (IF sees_line THEN "track" ELSE "ar_enter")
               /\ result' = result]_vars
    /\ [][(encoder_kind = "unsupported" /\ pc = "dr_enc")
            => /\ dist_travelled' =
                    dist_travelled
                      + TruncDiv(TruncDiv(desired_speed_cm_s * 4, 10)
                                 * DEAD_RECKON_STEP_S, 1000)
               /\ pc' = "dr_loop"
               /\ result' = result]_vars

\* Without encoders, a tick and a dead-reckon step have both estimated their
\* distance.
C32_Witness ==
    /\ encoder_kind = "unsupported"
    /\ pc = "dr_loop"
    /\ dist_travelled > 0
    /\ distance_since_window_start > 0
    /\ last_encoder_read = <<0, 0>>

\* C38: every dt that follow_line passes to pid_steer is at least LOOP_DT;
\* attempt_reacquire and the resumption after it leave last_time as the tick
\* that met the gap set it; so the dt of the next tick is the time since that
\* tick, the whole recovery included, and at least the first dead-reckon step.
C38_DtSpansRecovery ==
    /\ [](pc = "track" => dt >= LOOP_DT)
    /\ [][(pc \in RecoveryPcs \/ pc = "ar_ok") => last_time' = last_time]_vars
    /\ [](pc = "ar_ok" => (last_time = t0 /\ now - t0 >= DEAD_RECKON_STEP_S))
    /\ [][(pc = "loop" /\ pc' = "read")
            => /\ dt' = Max(now - last_time, LOOP_DT)
               /\ last_time' = last_time + dt']_vars
    /\ []((pc \in {"read", "encoders", "track"} /\ motor_by = "attempt_reacquire")
            => dt >= DEAD_RECKON_STEP_S)

\* The first tracking tick after a reacquisition in the sweep: its dt is
\* longer than the period and than the dead-reckon phase.
C38_Witness ==
    /\ pc = "track"
    /\ motor_by = "attempt_reacquire"
    /\ gaps > 0
    /\ dt > DEAD_RECKON_TIMEOUT
    /\ dt = now - (last_time - dt)

\* C22: when the line is not redetected and the time is not up, the sweep
\* takes the step multiples 0, +1, -1, +2, -2, ... in that order and has
\* reached both +A_max and -A_max, the multiples +4 and -4 of the step
\* (GAP_SWEEP_ANGLE_DEG over GAP_SWEEP_STEP), when the sequence is used up.
C22_SweepReachesBothLimits ==
    LET a_max == GAP_SWEEP_ANGLE_DEG \div GAP_SWEEP_STEP
        taken == {sweep_dir_sequence[i] : i \in 1..(idx - 1)}
    IN  /\ \A i \in 1..Len(sweep_dir_sequence) :
              sweep_dir_sequence[i] = IF i % 2 = 0 THEN i \div 2 ELSE -(i \div 2)
        /\ (pc = "sw_loop" /\ idx > Len(sweep_dir_sequence))
              => (a_max \in taken /\ -a_max \in taken)

\* The steps of attempt_reacquire alone.  It has returned True at pc = "loop",
\* False at pc = "ar_failed", and has raised at pc = "done".
NextRecovery ==
    \/ ReacquireEnter
    \/ DeadReckonDrive
    \/ DeadReckonRead
    \/ DeadReckonEncoders
    \/ StopForward
    \/ SweepPulse
    \/ SweepStop
    \/ SweepRead
    \/ WigglePulse
    \/ WiggleStop
    \/ WiggleRead

\* A call of attempt_reacquire.  The interpreter keeps running the program:
\* a step that can be taken is taken.
RecoverySpec ==
    InitRecovery /\ [][NextRecovery]_vars /\ WF_vars(NextRecovery)

\* ------------------------------------------------------------------------
\* Claims about follow_line and attempt_reacquire
\* ------------------------------------------------------------------------

\* C1: whenever attempt_reacquire is entered, and every sensor sample it takes
\* shows no line, it ends after finitely many steps with False; it never
\* loops forever.  (Checked under RecoverySpec.)
C1_RecoveryEndsFailed ==
    (pc = "ar_enter") ~> (pc = "ar_failed" \/ (pc # "ar_enter" /\ arSawOther))

\* attempt_reacquire returned False after samples that all showed no line.
C1_Witness == pc = "ar_failed" /\ ~arSawOther

\* C11: a sample of attempt_reacquire that shows the line ends the recovery at
\* once with True; when it is the third sweep sample, exactly three sweep
\* pulses and no wiggle pulse were issued, and the last motor command is the
\* stop that precedes the sample.  (Checked under RecoverySpec.)
C11_ThirdSweepSampleReacquires ==
    /\ (arSawOther /\ ~arUnavail /\ pc # "done") => pc = "ar_ok"
    /\ (pc = "ar_ok" /\ idx = 3)
          => /\ motor = stop_motors
             /\ motor_by = "attempt_reacquire"
             /\ wiggle_i = 0
             /\ now = sweep_start_time + 3 * (SWEEP_PULSE_S + SWEEP_SETTLE_S)

\* attempt_reacquire returned True on the third sweep sample.
C11_Witness == pc = "ar_ok" /\ idx = 3 /\ arSawOther /\ motor = stop_motors

\* C2 (as claimed): when no sample redetects the line, attempt_reacquire
\* returns False at most GAP_MAX_REACQUIRE_TIME plus one control tick after
\* its entry.
C2_FailsWithinBudget ==
    (pc = "ar_failed" /\ ~arSawOther)
        => now - t0 <= GAP_MAX_REACQUIRE_TIME + LOOP_DT

\* C3 (as claimed): whenever follow_line has stopped running, the last motor
\* command issued (if any was) is the zero-speed command.
C3_ExitsStopped ==
    pc = "done" => motor \in {<<>>, stop_motors}

\* C4 (as claimed): every wheel command has both speeds within
\* [-MAX_LINEAR_SPEED, MAX_LINEAR_SPEED].
C4_CommandsWithinLimits ==
    motor # <<>> => /\ Abs1(motor[1]) <= MAX_LINEAR_SPEED
                    /\ Abs1(motor[2]) <= MAX_LINEAR_SPEED

\* C5 (as claimed): no sweep pulse is started later than
\* GAP_MAX_REACQUIRE_TIME after the entry to attempt_reacquire.  At "sw_stop"
\* the pulse just issued was started SWEEP_PULSE_S before now.
C5_NoPulseAfterBudget ==
    pc = "sw_stop" => (now - SWEEP_PULSE_S) - t0 <= GAP_MAX_REACQUIRE_TIME

\* C7 (as claimed): on a tick taken after run_time_s has expired, follow_line
\* starts no gap recovery and does not return failure.
C7_NoRecoveryAfterExpiry ==
    (last_time - t_start > run_time_s)
        => (pc \notin RecoveryPcs \cup {"ar_failed"} /\ result # "False")

\* C8 (as claimed): when the sensor driver is unavailable, follow_line ends
\* with the result False, and attempt_reacquire makes no sensor read and
\* issues no driving pulse after the first failed read.
C8_UnavailableSurfaced ==
    /\ (pc = "done" /\ sensor_absent) => result = "False"
    /\ arUnavail => (arReadsAfter = 0 /\ arPulsesAfter = 0)

\* C10: when attempt_reacquire has returned False, the next step of
\* follow_line issues the zero-speed command and returns False; no other
\* motor command and no further tick.
C10_FailedRecoveryStops ==
    [][pc = "ar_failed" =>
          (motor' = stop_motors /\ motor_by' = "follow_line"
           /\ result' = "False" /\ pc' = "done" /\ ticks' = ticks)]_vars

\* follow_line returned False after a failed recovery, motors stopped.
C10_Witness ==
    pc = "done" /\ result = "False" /\ motor = stop_motors /\ motor_by = "follow_line"

\* ------------------------------------------------------------------------
\* Claims about single methods of Navigator
\* ------------------------------------------------------------------------

\* C12: for every error, every dt (positive, zero or negative) and every
\* prior PID state, pid_steer returns an omega within [-OMEGA_MAX, OMEGA_MAX].
\* (Checked under SpecPid.)
C12_OmegaClamped ==
    called = "pid_steer" => (-OMEGA_MAX <= ret /\ ret <= OMEGA_MAX)

\* An error of ten sensor positions with a negative dt, clamped at the top.
C12_Witness ==
    called = "pid_steer" /\ args = <<10000, -40>> /\ ret = OMEGA_MAX /\ calls > 1

\* C26 (as claimed): pid_steer changes the integral only when dt > 0; a call
\* with dt <= 0 leaves the integral as it was and takes the derivative as 0,
\* so that its steering is KP * error + KI * integral.
C26_IntegralOnlyWhenDtPositive ==
    [][(called' = "pid_steer" /\ calls' # calls /\ args'[2] <= 0)
          => /\ integral' = integral
             /\ prev_error' = args'[1]
             /\ ret' = clamp(TruncDiv(KP * args'[1] + TruncDiv(KI * integral', 1000),
                                      1000),
                             -OMEGA_MAX, OMEGA_MAX)]_vars

\* C13: omega_to_wheel_speeds(v, omega) returns (v_l, v_r) with
\* v_l = clamp(v - omega*L/2) and v_r = clamp(v + omega*L/2), each clamped on
\* its own to [-MAX_LINEAR_SPEED, MAX_LINEAR_SPEED]; the call changes no
\* Navigator state.  (Checked under SpecMixer.)
C13_WheelSpeedsClamped ==
    /\ [](called = "omega_to_wheel_speeds" =>
            LET half == TruncDiv(args[2] * WHEEL_BASE_CM, 2) IN
            /\ ret[1] = clamp(args[1] - half, -MAX_LINEAR_SPEED, MAX_LINEAR_SPEED)
            /\ ret[2] = clamp(args[1] + half, -MAX_LINEAR_SPEED, MAX_LINEAR_SPEED)
            /\ Abs1(ret[1]) <= MAX_LINEAR_SPEED
            /\ Abs1(ret[2]) <= MAX_LINEAR_SPEED)
    /\ [][called' = "omega_to_wheel_speeds" =>
            UNCHANGED <<pidState, windowState, last_encoder_read>>]_vars

\* Full speed in a tight turn: the outer wheel is clamped, the inner is not.
C13_Witness ==
    /\ called = "omega_to_wheel_speeds"
    /\ args = <<25000, 4921>>
    /\ ret = <<-4526, 25000>>

\* C14: sensor_reading_to_position returns None exactly when no element of
\* the frame is >= SENSOR_THRESHOLD; an element equal to the threshold is a
\* detection.  (Checked under SpecEstimator.)
C14_AbsentIffNoneAtThreshold ==
    called = "sensor_reading_to_position"
        => (~ret.seen <=> \A i \in 1..NUM_SENSORS : args[i] < SENSOR_THRESHOLD)

\* A frame whose only lit element is exactly at the threshold is a detection.
C14_Witness ==
    /\ called = "sensor_reading_to_position"
    /\ args = <<49, 49, 50, 49, 49>>
    /\ ret.seen

\* C15: for a frame with exactly one element at or above the threshold, at
\* sensor position p, and every other element zero, the result is exactly p
\* (in thousandths).  (Checked under SpecEstimator.)
C15_SingleElementGivesItsPosition ==
    called = "sensor_reading_to_position"
        => \A p \in 1..NUM_SENSORS :
              (/\ args[p] >= SENSOR_THRESHOLD
               /\ \A j \in 1..NUM_SENSORS \ {p} : args[j] = 0)
                  => (ret.seen /\ ret.val = 1000 * SENSOR_POSITIONS[p])

\* The rightmost sensor alone, at intensity 0.75: position +2.
C15_Witness ==
    /\ called = "sensor_reading_to_position"
    /\ args = <<0, 0, 0, 0, 75>>
    /\ ret = [seen |-> TRUE, val |-> 2000]

\* ------------------------------------------------------------------------
\* Claims about the tasks of navigation_display_test.py
\* ------------------------------------------------------------------------

\* C16: every snapshot the display takes (position, orientation, velocity,
\* acceleration) is the pose as it stood when the latest tick of the
\* integrator was complete; the display never sees a pose changed for only
\* part of a tick.  (Checked under SpecTasks.)
C16_SnapshotsAtTickBoundary ==
    [][snapshot' # snapshot => snapshot' = tick_state]_vars

\* The display shows a pose that has moved, while the integrator sleeps.
C16_Witness ==
    /\ disp_pc = "sleep"
    /\ nav_pc = "sleep"
    /\ disp_position # Zero3
    /\ snapshot = tick_state

\* C18: only the steps of the pose integrator change pos, velocity,
\* acceleration, orientation, accel_bias, gyro_bias or calibrated: a step of
\* the display or of the safety ring, which leaves the integrator where it
\* stands, leaves them all unchanged.  (Checked under SpecTasks.)
C18_OnlyIntegratorWritesPose ==
    [][(nav_pc' = nav_pc /\ cal_i' = cal_i)
          => UNCHANGED <<nav_pos, velocity, acceleration, orientation,
                         accel_bias, gyro_bias, calibrated>>]_vars

\* The display has copied a turned, moved pose and the safety ring has
\* stopped the motor, with the pose still the integrator's.
C18_Witness ==
    /\ disp_pc = "sleep"
    /\ disp_orientation # Zero3
    /\ disp_position # Zero3
    /\ ~moving
    /\ calibrated
    /\ Pose = tick_state

\* ------------------------------------------------------------------------
\* Claims about Transformation3D
\* ------------------------------------------------------------------------

\* C6 (as claimed): rotate_vector with invert=False followed by rotate_vector
\* with the same yaw, pitch, roll and invert=True returns the original vector.
C6_RoundTrip == rot_pc = "restored" => rotated = vector

\* ------------------------------------------------------------------------
\* Claims about Navigation3D
\* ------------------------------------------------------------------------

\* C9 (as claimed): without an IMU, run_continuous_update does not keep
\* ticking: update_position is not called again after it returned False.
C9_NoRetryWithoutImu == imu = "none" => nav_ticks <= 1

====
